---------------------------- MODULE Spec2Model ----------------------------
(***************************************************************************)
(* A model of the by-hahn/blog static site generator (scripts/build.js)    *)
(* and of the pure helpers it is built from.                               *)
(*                                                                         *)
(* Text is modelled as it is in JavaScript: a string is a sequence of     *)
(* one-character strings, so that the regular expressions of the source    *)
(* are evaluated character by character.  A filesystem path is a sequence *)
(* of path segments (each a string in the sense above).                    *)
(***************************************************************************)
EXTENDS Integers, Sequences, FiniteSets, TLC

VARIABLES
    \* ---- the build (scripts/build.js main) ----
    tree,        \* the source tree under posts/: files in enumeration order
    templates,   \* whether src/template-index.html and template-post.html exist
    dist,        \* the output tree: [dirs, files]
    mdFiles,     \* result of glob.sync("**/*.md")
    posts,       \* the accumulated list of accepted posts
    idx,         \* position of the per-post loop in mdFiles
    pc,          \* where main is: "init", "posts", "aggregate", "sitemap", "done", "failed"
    run,         \* which run of the build this is (1, 2)
    now,         \* the clock read by new Date() at sitemap time
    writes,      \* every directory/file creation of this run, with the source file it is for
    log,         \* console output of this run: [level, src]
    first,       \* the output tree and exit state left by the first run
    \* ---- extractHeadingsAndAddIds ----
    htmlContent, \* rendered post: a sequence of elements [tag, inner]
    hpos,        \* next element the replace callback is called for
    usedIds,     \* the usedIds set
    headings,    \* the headings array
    \* ---- md.renderer.rules.link_open ----
    token,       \* attrs of the link_open token: sequence of <<name, value>>
    rendered,    \* whether the rule has run on the token
    relBefore,   \* the rel tokens the link had before the rule ran
    \* ---- calculateReadingTime ----
    body,        \* markdown content of a post
    nWords,      \* number of words typed into body
    rt,          \* calculateReadingTime(body)
    rtPrev,      \* calculateReadingTime of the body before the last keystroke
    \* ---- the template compositor (injectMetaIntoHead, renderIndexTemplate, main) ----
    tpl,         \* the template text (template-post.html or template-index.html)
    ctx,         \* the values of the post the page is composed for
    outHtml,     \* the composed page
    stage,       \* "idle", "ready", "post" (outHtml is a post page), "index"
    \* ---- the theme toggle (src/js/theme.js) ----
    doc,         \* the document: "idle", "loading" (before DOMContentLoaded), "ready"
    variant,     \* which version of the script the page runs: "delay400", "transition"
    hasToggle,   \* whether the page has the #theme-toggle element
    dataTheme,   \* the data-theme attribute of <html>: "none", "light", "dark"
    ariaLabel,   \* the aria-label of the toggle
    transitioning, \* whether <html> has the class theme-transitioning
    stored,      \* localStorage 'blog-theme': "none" (no item), "light", "dark"
    prefersDark, \* matchMedia('(prefers-color-scheme: dark)').matches
    applyTimers, \* pending timers of the click handler, oldest first: their newTheme
    removeTimers, \* number of pending timers that remove the transition class
    clicks,      \* number of clicks on the toggle so far
    theme0,      \* data-theme when the first click was made
    lastEvent    \* the callback that ran last, with data-theme before it

buildVars == <<tree, templates, dist, mdFiles, posts, idx, pc, run, now, writes, log, first>>
headVars == <<htmlContent, hpos, usedIds, headings>>
linkVars == <<token, rendered, relBefore>>
readVars == <<body, nWords, rt, rtPrev>>
compVars == <<tpl, ctx, outHtml, stage>>
themeVars == <<doc, variant, hasToggle, dataTheme, ariaLabel, transitioning, stored,
               prefersDark, applyTimers, removeTimers, clicks, theme0, lastEvent>>
vars == <<buildVars, headVars, linkVars, readVars, compVars, themeVars>>

---------------------------------------------------------------------------
(* Characters and strings *)

Digit == {"0","1","2","3","4","5","6","7","8","9"}
LowerAZ == {"a","b","c","d","e","f","g","h","i","j","k","l","m",
            "n","o","p","q","r","s","t","u","v","w","x","y","z"}
UpperAZ == {"A","B","C","D","E","F","G","H","I","J","K","L","M",
            "N","O","P","Q","R","S","T","U","V","W","X","Y","Z"}
\* \s of a JavaScript regular expression, restricted to the characters modelled
WhiteSpace == {" ", "\n", "\t"}
\* line terminators, which "." of a regular expression does not match
LineTerminator == {"\n"}

toLowerCaseChar(c) ==
    CASE c = "A" -> "a" [] c = "B" -> "b" [] c = "C" -> "c" [] c = "D" -> "d"
      [] c = "E" -> "e" [] c = "F" -> "f" [] c = "G" -> "g" [] c = "H" -> "h"
      [] c = "I" -> "i" [] c = "J" -> "j" [] c = "K" -> "k" [] c = "L" -> "l"
      [] c = "M" -> "m" [] c = "N" -> "n" [] c = "O" -> "o" [] c = "P" -> "p"
      [] c = "Q" -> "q" [] c = "R" -> "r" [] c = "S" -> "s" [] c = "T" -> "t"
      [] c = "U" -> "u" [] c = "V" -> "v" [] c = "W" -> "w" [] c = "X" -> "x"
      [] c = "Y" -> "y" [] c = "Z" -> "z" [] OTHER -> c

toLowerCase(s) == [i \in 1..Len(s) |-> toLowerCaseChar(s[i])]

\* String.prototype.includes
includes(s, sub) ==
    \E i \in 1..(Len(s) - Len(sub) + 1) : SubSeq(s, i, i + Len(sub) - 1) = sub

\* String.prototype.startsWith
startsWith(s, pre) == Len(s) >= Len(pre) /\ SubSeq(s, 1, Len(pre)) = pre

\* String.prototype.endsWith
endsWith(s, suf) == Len(s) >= Len(suf) /\ SubSeq(s, Len(s) - Len(suf) + 1, Len(s)) = suf

\* /^[class]+$/.test(s)
matchesAll(s, class) == Len(s) >= 1 /\ \A i \in 1..Len(s) : s[i] \in class

DigitValue(c) ==
    CASE c = "0" -> 0 [] c = "1" -> 1 [] c = "2" -> 2 [] c = "3" -> 3 [] c = "4" -> 4
      [] c = "5" -> 5 [] c = "6" -> 6 [] c = "7" -> 7 [] c = "8" -> 8 [] c = "9" -> 9

DigitChar(n) == <<"0","1","2","3","4","5","6","7","8","9">>[n + 1]

\* Number -> decimal string, as a template literal formats a non-negative integer
RECURSIVE NumberToString(_)
NumberToString(n) ==
    IF n < 10 THEN <<DigitChar(n)>>
    ELSE Append(NumberToString(n \div 10), DigitChar(n % 10))

\* decimal string -> Number
RECURSIVE StringToNumber(_)
StringToNumber(s) ==
    IF s = <<>> THEN 0
    ELSE 10 * StringToNumber(SubSeq(s, 1, Len(s) - 1)) + DigitValue(s[Len(s)])

\* String.prototype.padStart(w, "0") of a decimal string
RECURSIVE padStart(_, _)
padStart(s, w) == IF Len(s) >= w THEN s ELSE padStart(<<"0">> \o s, w)

---------------------------------------------------------------------------
(* Names used by the build *)

S_dotdot == <<".",".">>
S_dot == <<".">>
S_work == <<"w","o","r","k">>
S_posts_dir == <<"p","o","s","t","s">>
S_dist == <<"d","i","s","t">>
S_index_html == <<"i","n","d","e","x",".","h","t","m","l">>
S_posts_index_json == <<"p","o","s","t","s","-","i","n","d","e","x",".","j","s","o","n">>
S_sitemap_xml == <<"s","i","t","e","m","a","p",".","x","m","l">>
S_robots_txt == <<"r","o","b","o","t","s",".","t","x","t">>
S_md == <<".","m","d">>
S_activities == <<"a","c","t","i","v","i","t","i","e","s">>
S_goals == <<"g","o","a","l","s">>
S_paper_reviews == <<"p","a","p","e","r","-","r","e","v","i","e","w","s">>
S_posts == <<"p","o","s","t","s">>
S_projects == <<"p","r","o","j","e","c","t","s">>
S_study_notes == <<"s","t","u","d","y","-","n","o","t","e","s">>
S_guestbook == <<"g","u","e","s","t","b","o","o","k">>
S_certifications == <<"c","e","r","t","i","f","i","c","a","t","i","o","n","s">>
S_notes == <<"n","o","t","e","s">>
S_Etc == <<"E","t","c">>
S_etc == <<"e","t","c">>
S_old == <<"o","l","d">>
S_heading == <<"h","e","a","d","i","n","g">>
S_min == <<" ","m","i","n">>
S_noopener == <<"n","o","o","p","e","n","e","r">>
S_noreferrer == <<"n","o","r","e","f","e","r","r","e","r">>
S_hash == <<"#">>
S_featured == <<"f","e","a","t","u","r","e","d">>
S_today == <<"2","0","2","6","-","1","1","-","0","1">>

\* const ROOT = process.cwd(), POSTS_DIR, DIST_DIR
ROOT == <<S_work>>
POSTS_DIR == Append(ROOT, S_posts_dir)
DIST_DIR == Append(ROOT, S_dist)

NAV_CATEGORIES == <<S_activities, S_goals, S_paper_reviews, S_posts,
                    S_projects, S_study_notes, S_guestbook, S_certifications>>

---------------------------------------------------------------------------
(* Path/name validation *)

\* path.resolve / path.normalize of an absolute path given as raw segments:
\* "" and "." are dropped, ".." removes the segment before it (none at the root)
RECURSIVE normalize(_)
normalize(segs) ==
    IF segs = <<>> THEN <<>>
    ELSE LET front == normalize(SubSeq(segs, 1, Len(segs) - 1))
             s == segs[Len(segs)]
         IN  IF s = <<>> \/ s = S_dot THEN front
             ELSE IF s = S_dotdot
                  THEN IF front = <<>> THEN <<>> ELSE SubSeq(front, 1, Len(front) - 1)
                  ELSE Append(front, s)

\* path.join(base, ...more): concatenate and normalize
pathJoin(base, more) == normalize(base \o more)

\* normalizedTarget.startsWith(normalizedBase + path.sep) || normalizedTarget === normalizedBase
isSafePath(basePath, targetPath) ==
    LET normalizedBase == normalize(basePath)
        normalizedTarget == normalize(targetPath)
    IN  \/ /\ Len(normalizedTarget) > Len(normalizedBase)
           /\ SubSeq(normalizedTarget, 1, Len(normalizedBase)) = normalizedBase
        \/ normalizedTarget = normalizedBase

\* /^[\w\-\.~]+$/ and no "..", "/" or "\"
isValidFilename(filename) ==
    IF includes(filename, S_dotdot) \/ includes(filename, <<"/">>) \/ includes(filename, <<"\\">>)
    THEN FALSE
    ELSE matchesAll(filename, Digit \cup LowerAZ \cup UpperAZ \cup {"_", "-", ".", "~"})

\* the category test with its anchors lost: /[a-z0-9\-_]+/ and no ".."
isValidCategoryUnanchored(category) ==
    (\E i \in 1..Len(category) : category[i] \in LowerAZ \cup Digit \cup {"-", "_"})
        /\ ~includes(category, S_dotdot)

\* /^[a-z0-9\-_]+$/ and no ".."
isValidCategory(category) ==
    matchesAll(category, LowerAZ \cup Digit \cup {"-", "_"}) /\ ~includes(category, S_dotdot)

\* /^(\d{4})-(\d{2})-(\d{2})~(.+)\.md$/ : the match object, or "null"
filenameMatch(filename) ==
    LET n == Len(filename)
    IN  IF /\ n >= 15
           /\ \A i \in {1, 2, 3, 4, 6, 7, 9, 10} : filename[i] \in Digit
           /\ filename[5] = "-" /\ filename[8] = "-" /\ filename[11] = "~"
           /\ SubSeq(filename, n - 2, n) = S_md
           /\ \A i \in 12..(n - 3) : filename[i] \notin LineTerminator
        THEN [matched |-> TRUE,
              yyyy |-> SubSeq(filename, 1, 4), mm |-> SubSeq(filename, 6, 7),
              dd |-> SubSeq(filename, 9, 10), slug |-> SubSeq(filename, 12, n - 3)]
        ELSE [matched |-> FALSE, yyyy |-> <<>>, mm |-> <<>>, dd |-> <<>>, slug |-> <<>>]

\* /^[a-z0-9\-]+$/.test(slug)
isValidSlug(slug) == matchesAll(slug, LowerAZ \cup Digit \cup {"-"})

\* parsePostFilename without the slug test
parsePostFilenameAnySlug(filename) ==
    LET m == filenameMatch(filename)
    IN  IF ~m.matched
        THEN [ok |-> FALSE, warned |-> FALSE, slug |-> <<>>, date |-> <<>>]
        ELSE [ok |-> TRUE, warned |-> FALSE, slug |-> m.slug,
              date |-> m.yyyy \o <<"-">> \o m.mm \o <<"-">> \o m.dd]

\* parsePostFilename: [ok, warned, slug, date]; ok = FALSE stands for null,
\* warned says whether "Invalid slug format" was logged
parsePostFilename(filename) ==
    LET m == filenameMatch(filename)
    IN  IF ~m.matched
        THEN [ok |-> FALSE, warned |-> FALSE, slug |-> <<>>, date |-> <<>>]
        ELSE IF ~isValidSlug(m.slug)
        THEN [ok |-> FALSE, warned |-> TRUE, slug |-> <<>>, date |-> <<>>]
        ELSE [ok |-> TRUE, warned |-> FALSE, slug |-> m.slug,
              date |-> m.yyyy \o <<"-">> \o m.mm \o <<"-">> \o m.dd]

---------------------------------------------------------------------------
(* Dates and ordering *)

IsLeapYear(y) == (y % 4 = 0 /\ y % 100 # 0) \/ y % 400 = 0

DaysInMonth(y, m) ==
    IF m = 2 THEN (IF IsLeapYear(y) THEN 29 ELSE 28)
    ELSE IF m \in {4, 6, 9, 11} THEN 30 ELSE 31

\* A timestamp (an ISO-8601 string "YYYY-MM-DDTHH:MM:SS.mmmZ") is kept as its
\* calendar date string and the milliseconds since that day's midnight UTC.
Timestamp(date, ms) == [date |-> date, ms |-> ms]

formatDate(y, m, d) ==
    padStart(NumberToString(y), 4) \o <<"-">> \o padStart(NumberToString(m), 2)
        \o <<"-">> \o padStart(NumberToString(d), 2)

\* new Date(`${date}T00:00:00.000Z`).toISOString() as Node (V8) evaluates it, for a
\* date string of the shape \d{4}-\d{2}-\d{2}: a month outside 01..12 or a day
\* outside 01..31 gives an Invalid Date, whose toISOString throws RangeError
\* (ok = FALSE); a day beyond the month's length rolls over into the next month.
toIsoDate(dateStrYYYYMMDD) ==
    LET y == StringToNumber(SubSeq(dateStrYYYYMMDD, 1, 4))
        m == StringToNumber(SubSeq(dateStrYYYYMMDD, 6, 7))
        d == StringToNumber(SubSeq(dateStrYYYYMMDD, 9, 10))
    IN  IF m < 1 \/ m > 12 \/ d < 1 \/ d > 31
        THEN [ok |-> FALSE, value |-> Timestamp(<<>>, 0)]
        ELSE IF d <= DaysInMonth(y, m)
        THEN [ok |-> TRUE, value |-> Timestamp(formatDate(y, m, d), 0)]
        ELSE [ok |-> TRUE, value |-> Timestamp(formatDate(y, m + 1, d - DaysInMonth(y, m)), 0)]

\* collation rank of the characters a date string is made of
CharRank(c) == IF c = "-" THEN 0 ELSE 1 + DigitValue(c)

\* a.localeCompare(b) for strings of digits and hyphens: -1, 0 or 1
RECURSIVE localeCompare(_, _)
localeCompare(a, b) ==
    IF a = <<>> /\ b = <<>> THEN 0
    ELSE IF a = <<>> THEN -1
    ELSE IF b = <<>> THEN 1
    ELSE IF CharRank(a[1]) < CharRank(b[1]) THEN -1
    ELSE IF CharRank(a[1]) > CharRank(b[1]) THEN 1
    ELSE localeCompare(Tail(a), Tail(b))

\* the comparator with its operands exchanged: oldest first
byDateAsc(a, b) == localeCompare(a.date, b.date)

\* the comparator of posts.sort: (a, b) => b.date.localeCompare(a.date)
byDateDesc(a, b) == localeCompare(b.date, a.date)

\* Array.prototype.sort with that comparator; the sort is stable, so an element
\* goes after every element that does not compare greater than it
RECURSIVE sortPosts(_)
sortPosts(ps) ==
    IF ps = <<>> THEN <<>>
    ELSE LET front == sortPosts(SubSeq(ps, 1, Len(ps) - 1))
             x == ps[Len(ps)]
             k == Cardinality({i \in 1..Len(front) : byDateDesc(front[i], x) <= 0})
         IN  SubSeq(front, 1, k) \o <<x>> \o SubSeq(front, k + 1, Len(front))

\* Array.prototype.slice(0, n)
slice0(s, n) == SubSeq(s, 1, IF Len(s) < n THEN Len(s) ELSE n)

\* [...new Set(s)]: the distinct elements in order of first occurrence
RECURSIVE unique(_)
unique(s) ==
    IF s = <<>> THEN <<>>
    ELSE LET front == unique(SubSeq(s, 1, Len(s) - 1))
             x == s[Len(s)]
         IN  IF \E i \in 1..Len(front) : front[i] = x THEN front ELSE Append(front, x)

---------------------------------------------------------------------------
(* The output tree *)

EmptyDist == [dirs |-> {}, files |-> {}]

\* a page, whatever its kind; the fields a kind does not use are empty. Links
\* are kept as the path segments of their href ("/posts/a/" is <<posts, a>>)
Page(kind, canonical, list, notice) ==
    [kind |-> kind, canonical |-> canonical, list |-> list, notice |-> notice,
     featured |-> <<>>, more |-> FALSE, moreHref |-> <<>>, cards |-> <<>>, items |-> <<>>]

\* directories that exist before the build runs
ExistingDirs == {SubSeq(ROOT, 1, k) : k \in 0..Len(ROOT)}

\* fs.ensureDir(p): the directories it has to create in d
newDirs(d, p) == {SubSeq(p, 1, k) : k \in 0..Len(p)} \ (ExistingDirs \cup d.dirs)

ensureDir(d, p) == [d EXCEPT !.dirs = @ \cup newDirs(d, p)]

\* fs.writeFile(p, page): creates or replaces
writeFile(d, p, page) ==
    [d EXCEPT !.files = {f \in @ : f.path # p} \cup {[path |-> p, page |-> page]}]

\* what is at path p of tree d (a set with at most one page)
pagesAt(d, p) == {f.page : f \in {g \in d.files : g.path = p}}

---------------------------------------------------------------------------
(* The per-post loop body, scripts/build.js main *)

\* glob.sync("**/*.md", {cwd: POSTS_DIR, nodir: true}): the files whose name ends in .md
globMd(t) == SelectSeq(t, LAMBDA f : endsWith(f.rel[Len(f.rel)], S_md))

buildPermalink(category, slug) == <<category, slug>>

\* what one iteration of the loop decides for source file f (number i of mdFiles):
\* status, the level of the line it logs ("none": nothing is logged) and the post
postResult(f, i) ==
    LET rel == f.rel
        abs == pathJoin(POSTS_DIR, rel)
        parts == rel
        category == parts[1]
        filename == parts[Len(parts)]
        name == parsePostFilename(filename)
        outDir == pathJoin(DIST_DIR, <<category, name.slug>>)
        skip(status, level) ==
            [status |-> status, level |-> level, outDir |-> <<>>,
             post |-> [category |-> <<>>, slug |-> <<>>, date |-> <<>>,
                       permalink |-> <<>>, featured |-> FALSE, src |-> i]]
    IN  IF ~isSafePath(POSTS_DIR, abs) THEN skip("suspicious path", "warn")
        ELSE IF Len(parts) < 2 THEN skip("no category", "none")
        ELSE IF ~isValidCategory(category) THEN skip("invalid category", "warn")
        ELSE IF ~isValidFilename(filename) THEN skip("invalid filename", "warn")
        ELSE IF ~name.ok
        THEN skip("no name", IF name.warned THEN "warn" ELSE "none")
        ELSE IF f.yaml = "bad" THEN skip("exception", "error")
        ELSE IF ~isSafePath(DIST_DIR, outDir) THEN skip("suspicious output path", "warn")
        ELSE [status |-> "built", level |-> "log", outDir |-> outDir,
              post |-> [category |-> category, slug |-> name.slug, date |-> name.date,
                        permalink |-> buildPermalink(category, name.slug),
                        featured |-> f.featured, src |-> i]]

logLine(level, src, msg, count) == [level |-> level, src |-> src, msg |-> msg, count |-> count]

written(paths, src) == {[path |-> p, src |-> src] : p \in paths}

---------------------------------------------------------------------------
(* Aggregation *)

RecentLimit == 12
FeaturedLimit == 3
CardLimit == 8

postsOf(ps, cat) == SelectSeq(ps, LAMBDA p : p.category = cat)

\* the categories of the posts alone
categoriesDiscovered(ps) == unique([i \in 1..Len(ps) |-> ps[i].category])

\* categories: NAV_CATEGORIES united with the categories of the posts
categoriesOf(ps) ==
    LET discovered == unique([i \in 1..Len(ps) |-> ps[i].category])
    IN  unique(NAV_CATEGORIES \o discovered)

NoPostsYet == "No posts yet."
NoPostsFound == "No posts found."

\* a card that lists every post of its category
categoryCardUncapped(ps, cat) ==
    LET catPosts == postsOf(ps, cat)
    IN  [cat |-> cat, list |-> catPosts,
         notice |-> IF Len(catPosts) > 0 THEN "" ELSE NoPostsYet,
         viewAllHref |-> <<cat>>]

\* one card of categoryCardsHtml: the first eight posts of the category and the
\* link "View all" to /<cat>/
categoryCard(ps, cat) ==
    LET catPosts == postsOf(ps, cat)
    IN  [cat |-> cat, list |-> slice0(catPosts, CardLimit),
         notice |-> IF Len(catPosts) > 0 THEN "" ELSE NoPostsYet,
         viewAllHref |-> <<cat>>]

\* the posts that are the featured ones without the cap of the section
featuredOfUncapped(ps) ==
    LET featuredPosts == SelectSeq(ps, LAMBDA p : p.featured)
    IN  [list |-> featuredPosts,
         more |-> Len(featuredPosts) > FeaturedLimit,
         moreHref |-> IF Len(featuredPosts) > FeaturedLimit THEN <<S_featured>> ELSE <<>>]

\* featuredHtml: the first three featured posts and, when there are more, the
\* link "View all featured posts" to /featured/; empty without a featured post
featuredOf(ps) ==
    LET featuredPosts == SelectSeq(ps, LAMBDA p : p.featured)
    IN  [list |-> slice0(featuredPosts, FeaturedLimit),
         more |-> Len(featuredPosts) > FeaturedLimit,
         moreHref |-> IF Len(featuredPosts) > FeaturedLimit THEN <<S_featured>> ELSE <<>>]

\* homeHtml = renderIndexTemplate(indexTpl, {canonicalPath: "/", recentHtml,
\*            categoryCardsHtml, featuredHtml}), ps being the sorted posts
homePage(ps) ==
    LET categories == categoriesOf(ps)
        section == featuredOf(ps)
    IN  [Page("home", <<>>, slice0(ps, RecentLimit),
              IF Len(ps) > 0 THEN "" ELSE NoPostsFound)
         EXCEPT !.featured = section.list,
                !.more = section.more,
                !.moreHref = section.moreHref,
                !.cards = [i \in 1..Len(categories) |-> categoryCard(ps, categories[i])]]

categoryPage(ps, cat) ==
    LET catPosts == postsOf(ps, cat)
    IN  Page("category", <<cat>>, catPosts, IF Len(catPosts) > 0 THEN "" ELSE NoPostsYet)

\* the loop "for (const cat of categories)": d after the pages of cats[1..n]
RECURSIVE writeCategoryPages(_, _, _, _)
writeCategoryPages(d, ps, cats, n) ==
    IF n = 0 THEN d
    ELSE LET before == writeCategoryPages(d, ps, cats, n - 1)
             cat == cats[n]
             catDir == pathJoin(DIST_DIR, <<cat>>)
         IN  IF ~isValidCategory(cat) \/ ~isSafePath(DIST_DIR, catDir) THEN before
             ELSE writeFile(ensureDir(before, catDir), Append(catDir, S_index_html),
                            categoryPage(ps, cat))

\* a post's lastmod taken from the clock instead of its date
postLastmodNow(p) == [ok |-> TRUE, value |-> Timestamp(S_today, now)]

\* the items of the sitemap: home, categories, posts (loc is the path the
\* site URL is prefixed to by fullUrlFromPath)
postLastmod(p) == toIsoDate(p.date)

sitemapItems(ps, nowIso) ==
    LET categories == categoriesOf(ps)
    IN  <<[loc |-> <<>>, lastmod |-> nowIso]>>
        \o [i \in 1..Len(categories) |-> [loc |-> <<categories[i]>>, lastmod |-> nowIso]]
        \o [i \in 1..Len(ps) |-> [loc |-> ps[i].permalink, lastmod |-> postLastmod(ps[i]).value]]

---------------------------------------------------------------------------
(* Source trees the build is run on *)

F_2024_01_01_a == <<"2","0","2","4","-","0","1","-","0","1","~","a",".","m","d">>
F_2024_03_01_b == <<"2","0","2","4","-","0","3","-","0","1","~","b",".","m","d">>
F_2023_12_31_c == <<"2","0","2","3","-","1","2","-","3","1","~","c",".","m","d">>
F_2024_03_01_a == <<"2","0","2","4","-","0","3","-","0","1","~","a",".","m","d">>
F_2024_13_45_d == <<"2","0","2","4","-","1","3","-","4","5","~","d",".","m","d">>
F_2024_02_30_e == <<"2","0","2","4","-","0","2","-","3","0","~","e",".","m","d">>
F_2024_01_01_f == <<"2","0","2","4","-","0","1","-","0","1","~","f",".","m","d">>
F_draft == <<"d","r","a","f","t",".","m","d">>
D_2024_03_01 == <<"2","0","2","4","-","0","3","-","0","1">>
D_2024_3_01 == <<"2","0","2","4","-","3","-","0","1">>
D_24_03_01 == <<"2","4","-","0","3","-","0","1">>
D_2024_03_0a == <<"2","0","2","4","-","0","3","-","0","a">>
D_2024_13_45 == <<"2","0","2","4","-","1","3","-","4","5">>
D_2023_02_29 == <<"2","0","2","3","-","0","2","-","2","9">>
D_x2024_03_01 == <<"x","2","0","2","4","-","0","3","-","0","1">>
D_2024_01_01 == <<"2","0","2","4","-","0","1","-","0","1">>
D_2023_12_31 == <<"2","0","2","3","-","1","2","-","3","1">>
G_a == <<"a">>
G_a_b == <<"a","-","b">>
G_a1 == <<"a","1">>
G_A == <<"A">>
G_a_u == <<"a","_","b">>
G_a_dot == <<"a",".","b">>
G_a_sp == <<"a"," ","b">>
G_a_nl == <<"a","\n","b">>
G_a_dd == <<"a",".",".","b">>
X_md == <<".","m","d">>
X_txt == <<".","t","x","t">>
X_MD == <<".","M","D">>
X_mdx == <<".","m","d","x">>
X_md_bak == <<".","m","d",".","b","a","k">>
X_md_md == <<".","m","d",".","m","d">>

\* a source file: its path relative to posts/ (segments), whether its front matter
\* is well-formed YAML ("bad": gray-matter throws on it) and its featured flag
File(rel, yaml, featured) == [rel |-> rel, yaml |-> yaml, featured |-> featured]

\* a pool of source files: posts in a navigation category and in a discovered one,
\* equal dates, equal slugs, dates that are no calendar dates, malformed front
\* matter, and paths the validators have to reject
FilePool ==
    { File(<<S_posts, F_2024_01_01_a>>, "ok", FALSE),
      File(<<S_posts, F_2024_03_01_b>>, "ok", TRUE),
      File(<<S_notes, F_2023_12_31_c>>, "ok", FALSE),
      File(<<S_notes, F_2024_01_01_a>>, "ok", TRUE),
      File(<<S_posts, F_2024_03_01_a>>, "ok", FALSE),
      File(<<S_posts, F_2024_13_45_d>>, "ok", FALSE),
      File(<<S_posts, F_2024_02_30_e>>, "ok", FALSE),
      File(<<S_posts, F_2024_01_01_f>>, "bad", FALSE),
      File(<<S_Etc, F_2024_01_01_a>>, "ok", FALSE),
      File(<<S_dotdot, S_dotdot, S_etc, F_2024_01_01_a>>, "ok", FALSE),
      File(<<F_2024_01_01_a>>, "ok", FALSE),
      File(<<S_posts, F_draft>>, "ok", FALSE) }

\* the parts file names are put together from
DateParts == {D_2024_03_01, D_2024_3_01, D_24_03_01, D_2024_03_0a, D_2024_13_45,
              D_2023_02_29, D_x2024_03_01}
SepParts == {<<"~">>, <<"-">>, <<>>}
SlugParts == {G_a, G_a_b, G_a1, G_A, G_a_u, G_a_dot, G_a_sp, G_a_nl, G_a_dd, <<>>}
ExtParts == {X_md, X_txt, X_MD, X_mdx, X_md_bak, X_md_md, <<>>}

NamePool == {d \o s \o g \o x : d \in DateParts, s \in SepParts, g \in SlugParts, x \in ExtParts}

\* the letters slugs of a long tree are made of
Letters == <<"a","b","c","d","e","f","g","h","i","j","k","l","m",
             "n","o","p","q","r","s","t","u","v","w","x","y","z">>

\* file i of a long tree: category posts, slug the i-th letter(s), the given date
longFile(i, date) ==
    File(<<S_posts, date \o <<"~", Letters[((i - 1) % 26) + 1]>>
                    \o (IF i > 26 THEN <<"2">> ELSE <<>>) \o S_md>>, "ok", i % 3 = 0)

MaxFiles == 2
LongLen == 13
Runs == 2

\* sequences of distinct files of the pool, of length n
RECURSIVE treesOfLen(_)
treesOfLen(n) ==
    IF n = 0 THEN {<<>>}
    ELSE {Append(t, f) : t \in treesOfLen(n - 1), f \in FilePool}

distinctFiles(t) == \A i, j \in 1..Len(t) : i # j => t[i] # t[j]

SmallTrees == UNION {{t \in treesOfLen(n) : distinctFiles(t)} : n \in 0..MaxFiles}

\* one file posts/<name> for every name of the name pool
NameTrees == {<<File(<<S_posts, n>>, "ok", FALSE)>> : n \in NamePool}

\* LongLen posts dated 2024-01-01, except that up to two of them are dated
\* 2024-03-01 (file a) and 2023-12-31 (file b)
LongTrees ==
    {[i \in 1..LongLen |-> longFile(i, IF i = a THEN D_2024_03_01
                                       ELSE IF i = b THEN D_2023_12_31
                                       ELSE D_2024_01_01)]
        : a \in 0..LongLen, b \in 0..LongLen}

\* what an earlier build of another tree left in dist/
StaleDist ==
    [dirs |-> {DIST_DIR, Append(DIST_DIR, S_old)},
     files |-> {[path |-> <<S_work, S_dist, S_old, S_index_html>>,
                 page |-> Page("category", <<S_old>>, <<>>, NoPostsYet)]}]

---------------------------------------------------------------------------
(* The build: scripts/build.js main *)

IdleHead == htmlContent = <<>> /\ hpos = 1 /\ usedIds = {} /\ headings = <<>>
IdleLink == token = <<>> /\ rendered = FALSE /\ relBefore = {}
IdleRead == body = <<>> /\ nWords = 0 /\ rt = <<>> /\ rtPrev = <<>>
IdleComp == tpl = <<>> /\ ctx = <<>> /\ outHtml = <<>> /\ stage = "idle"
IdleTheme ==
    /\ doc = "idle" /\ variant = "delay400" /\ hasToggle = FALSE /\ dataTheme = "none"
    /\ ariaLabel = "none" /\ transitioning = FALSE /\ stored = "none" /\ prefersDark = FALSE
    /\ applyTimers = <<>> /\ removeTimers = 0 /\ clicks = 0 /\ theme0 = "none"
    /\ lastEvent = [kind |-> "none", before |-> "none"]

Init ==
    /\ tree \in SmallTrees \cup NameTrees \cup LongTrees
    /\ templates \in BOOLEAN
    /\ dist = StaleDist
    /\ mdFiles = <<>>
    /\ posts = <<>>
    /\ idx = 1
    /\ pc = "init"
    /\ run = 1
    /\ now = 1
    /\ writes = {}
    /\ log = <<>>
    /\ first = [dist |-> EmptyDist, pc |-> "none"]
    /\ IdleHead /\ IdleLink /\ IdleRead /\ IdleComp /\ IdleTheme

\* fs.remove(DIST_DIR); fs.ensureDir(DIST_DIR)
resetDist == ensureDir(EmptyDist, DIST_DIR)

\* copyStaticFiles: robots.txt is generated when src/ has none
copyStaticFiles(d) == writeFile(d, Append(DIST_DIR, S_robots_txt), Page("robots", <<>>, <<>>, ""))

\* main, up to the per-post loop: reset dist, load the templates (a missing
\* template is fatal), copy assets, enumerate the posts
Start ==
    /\ pc = "init"
    /\ posts' = <<>>
    /\ idx' = 1
    /\ IF templates
       THEN /\ dist' = copyStaticFiles(resetDist)
            /\ mdFiles' = globMd(tree)
            /\ writes' = written({DIST_DIR, Append(DIST_DIR, S_robots_txt)}, 0)
            /\ log' = <<logLine("log", 0, "Build start", 0)>>
            /\ pc' = "posts"
       ELSE /\ dist' = resetDist
            /\ mdFiles' = <<>>
            /\ writes' = written({DIST_DIR}, 0)
            /\ log' = <<logLine("log", 0, "Build start", 0), logLine("error", 0, "Build failed", 0)>>
            /\ pc' = "failed"
    /\ UNCHANGED <<tree, templates, run, now, first, headVars, linkVars, readVars, compVars, themeVars>>

\* one iteration of "for (const rel of mdFiles)", try/catch included
ProcessPost ==
    /\ pc = "posts"
    /\ idx <= Len(mdFiles)
    /\ LET r == postResult(mdFiles[idx], idx)
           file == Append(r.outDir, S_index_html)
       IN  /\ IF r.status = "built"
              THEN /\ dist' = writeFile(ensureDir(dist, r.outDir), file,
                                        Page("post", r.post.permalink, <<r.post>>, ""))
                   /\ writes' = writes \cup written(newDirs(dist, r.outDir) \cup {file}, idx)
                   /\ posts' = Append(posts, r.post)
              ELSE UNCHANGED <<dist, writes, posts, compVars, themeVars>>
           /\ log' = IF r.level = "none" THEN log
                     ELSE Append(log, logLine(r.level, idx, r.status, 0))
    /\ idx' = idx + 1
    /\ UNCHANGED <<tree, templates, mdFiles, pc, run, now, first, headVars, linkVars, readVars, compVars, themeVars>>

\* after the loop: sort, the home page, the category pages, posts-index.json
Aggregate ==
    /\ pc = "posts"
    /\ idx > Len(mdFiles)
    /\ LET sorted == sortPosts(posts)
           categories == categoriesOf(sorted)
           home == writeFile(dist, Append(DIST_DIR, S_index_html), homePage(sorted))
           cats == writeCategoryPages(home, sorted, categories, Len(categories))
       IN  /\ posts' = sorted
           /\ dist' = writeFile(cats, Append(DIST_DIR, S_posts_index_json),
                                Page("json", <<>>, sorted, ""))
           /\ writes' = writes
                \cup written((cats.dirs \ dist.dirs) \cup {f.path : f \in cats.files \ dist.files}
                             \cup {Append(DIST_DIR, S_posts_index_json)}, 0)
    /\ pc' = "sitemap"
    /\ UNCHANGED <<tree, templates, mdFiles, idx, run, now, log, first, headVars, linkVars, readVars, compVars, themeVars>>

\* sitemap.xml and the summary line; an exception here reaches the outer catch
Sitemap ==
    /\ pc = "sitemap"
    /\ LET nowIso == Timestamp(S_today, now)
       IN  IF \A i \in 1..Len(posts) : postLastmod(posts[i]).ok
           THEN /\ dist' = writeFile(dist, Append(DIST_DIR, S_sitemap_xml),
                                     [Page("sitemap", <<>>, <<>>, "")
                                      EXCEPT !.items = sitemapItems(posts, nowIso)])
                /\ writes' = writes \cup written({Append(DIST_DIR, S_sitemap_xml)}, 0)
                /\ log' = Append(log, logLine("log", 0, "Success", Len(posts)))
                /\ pc' = "done"
           ELSE /\ log' = Append(log, logLine("error", 0, "Build failed", 0))
                /\ pc' = "failed"
                /\ UNCHANGED <<dist, writes, compVars, themeVars>>
    /\ UNCHANGED <<tree, templates, mdFiles, posts, idx, run, now, first, headVars, linkVars, readVars, compVars, themeVars>>

\* the build is run again on the same source tree, later
Rerun ==
    /\ pc \in {"done", "failed"}
    /\ run < Runs
    /\ first' = [dist |-> dist, pc |-> pc]
    /\ run' = run + 1
    /\ now' = now + 1
    /\ pc' = "init"
    /\ UNCHANGED <<tree, templates, dist, mdFiles, posts, idx, writes, log, headVars, linkVars, readVars, compVars, themeVars>>

Next == Start \/ ProcessPost \/ Aggregate \/ Sitemap \/ Rerun

Spec == Init /\ [][Next]_vars

---------------------------------------------------------------------------
(* Properties of the build *)

\* the per-post loop of this run has handled every enumerated file
LoopDone ==
    \/ pc = "posts" /\ idx > Len(mdFiles)
    \/ pc \in {"sitemap", "done"}
    \/ pc = "failed" /\ templates

TreeFiles == {tree[i] : i \in 1..Len(tree)}

\* the positions of source file f in mdFiles
SrcOf(f) == {i \in 1..Len(mdFiles) : mdFiles[i] = f}

\* source file f was accepted: it is in the post list and its page was written
Accepted(f) ==
    \E k \in 1..Len(posts) :
        /\ posts[k].src \in SrcOf(f)
        /\ [path |-> DIST_DIR \o posts[k].permalink \o <<S_index_html>>, src |-> posts[k].src] \in writes

\* nothing of the output is for source file f
NoOutputFor(f) ==
    /\ \A w \in writes : w.src \notin SrcOf(f)
    /\ \A k \in 1..Len(posts) : posts[k].src \notin SrcOf(f)
    /\ \A pg \in pagesAt(dist, Append(DIST_DIR, S_posts_index_json)) :
          \A k \in 1..Len(pg.list) : pg.list[k].src \notin SrcOf(f)
    /\ \A pg \in pagesAt(dist, Append(DIST_DIR, S_sitemap_xml)) :
          \A k \in 1..Len(pg.items) :
              Len(pg.items[k].loc) = 2 =>
                  \E j \in 1..Len(posts) : posts[j].permalink = pg.items[k].loc
                                           /\ posts[j].src \notin SrcOf(f)

SlugChars == LowerAZ \cup Digit \cup {"-"}
CategoryChars == LowerAZ \cup Digit \cup {"-", "_"}

\* the name has the form YYYY-MM-DD~slug.md, slug a non-empty word over [a-z0-9-]
WellFormedName(fn) ==
    \E k \in 1..Len(fn) :
        /\ Len(fn) = 11 + k + 3
        /\ \A i \in 1..4 : fn[i] \in Digit
        /\ fn[5] = "-"
        /\ \A i \in 6..7 : fn[i] \in Digit
        /\ fn[8] = "-"
        /\ \A i \in 9..10 : fn[i] \in Digit
        /\ fn[11] = "~"
        /\ \A i \in 12..(11 + k) : fn[i] \in SlugChars
        /\ <<fn[12 + k], fn[13 + k], fn[14 + k]>> = <<".", "m", "d">>

CategoryWellFormed(c) == c # <<>> /\ \A i \in 1..Len(c) : c[i] \in CategoryChars

\* the files C1 speaks of: <category>/<filename> with a valid category
InValidCategory(f) == Len(f.rel) = 2 /\ CategoryWellFormed(f.rel[1])

UnderDist(p) == Len(p) >= Len(DIST_DIR) /\ SubSeq(p, 1, Len(DIST_DIR)) = DIST_DIR
NoDots(p) == \A i \in 1..Len(p) : p[i] \notin {S_dot, S_dotdot, <<>>}

\* C2: every directory and file the build creates is the output root or a strict
\* descendant of it, and a post whose category is not a word over [a-z0-9-_] is
\* skipped before anything is written for it.
C2_OutputContained ==
    /\ \A w \in writes : UnderDist(w.path) /\ NoDots(w.path)
    /\ \A d \in dist.dirs : UnderDist(d) /\ NoDots(d)
    /\ \A f \in dist.files : UnderDist(f.path) /\ NoDots(f.path) /\ Len(f.path) > Len(DIST_DIR)
    /\ \A i \in 1..Len(mdFiles) :
          ~CategoryWellFormed(mdFiles[i].rel[1]) => \A w \in writes : w.src # i

C2_Witness ==
    /\ pc = "done"
    /\ \E i \in 1..Len(mdFiles) : mdFiles[i].rel[1] = S_dotdot
    /\ \E w \in writes : w.src > 0

\* C3: no single post source file makes the build end in the fatal state: given
\* the templates exist, the build reaches the success summary.
C3_NeverFatal == templates => pc # "failed"

\* the category set: navigation categories united with those of accepted posts
CategorySet ==
    {NAV_CATEGORIES[i] : i \in 1..Len(NAV_CATEGORIES)} \cup {posts[k].category : k \in 1..Len(posts)}

PostsIn(c) == {k \in 1..Len(posts) : posts[k].category = c}

\* C7: after a successful build every category of the category set without an
\* accepted post has a page <category>/index.html carrying the "No posts yet."
\* notice, and its own entry in the sitemap.
C7_EmptyCategoryPages ==
    pc = "done" =>
        \A c \in CategorySet :
            PostsIn(c) = {} =>
                /\ \E pg \in pagesAt(dist, DIST_DIR \o <<c, S_index_html>>) :
                      pg.kind = "category" /\ pg.notice = "No posts yet." /\ pg.list = <<>>
                /\ \E pg \in pagesAt(dist, Append(DIST_DIR, S_sitemap_xml)) :
                      Cardinality({k \in 1..Len(pg.items) : pg.items[k].loc = <<c>>}) = 1

C7_Witness ==
    /\ pc = "done"
    /\ \E c \in CategorySet : PostsIn(c) = {}
    /\ \E c \in CategorySet : PostsIn(c) # {}

\* the files of a tree other than the sitemap
OtherFiles(d) == {f \in d.files : f.path # Append(DIST_DIR, S_sitemap_xml)}
SitemapsOf(d) == pagesAt(d, Append(DIST_DIR, S_sitemap_xml))

\* C9: a second run on the same source tree ends as the first did and leaves the
\* same directories and files with the same content, except that the lastmod of
\* the home and category entries of the sitemap may differ.
C9_Idempotent ==
    (run > 1 /\ pc \in {"done", "failed"}) =>
        /\ pc = first.pc
        /\ dist.dirs = first.dist.dirs
        /\ OtherFiles(dist) = OtherFiles(first.dist)
        /\ (SitemapsOf(dist) = {}) <=> (SitemapsOf(first.dist) = {})
        /\ \A a \in SitemapsOf(dist), b \in SitemapsOf(first.dist) :
              /\ Len(a.items) = Len(b.items)
              /\ \A k \in 1..Len(a.items) :
                    /\ a.items[k].loc = b.items[k].loc
                    /\ Len(a.items[k].loc) = 2 => a.items[k].lastmod = b.items[k].lastmod

C9_Witness ==
    /\ run > 1 /\ pc = "done" /\ Len(posts) > 1
    /\ \E a \in SitemapsOf(dist), b \in SitemapsOf(first.dist) : a.items[1].lastmod # b.items[1].lastmod

\* C10: the sitemap lists exactly the home page, one entry per category of the
\* category set and one entry per accepted post; a post's lastmod is its filename
\* date at 00:00:00.000 UTC, the home and category entries carry the build time.
C10_SitemapEntries ==
    pc = "done" => \A pg \in SitemapsOf(dist) :
        LET nc == Cardinality(CategorySet)
        IN  /\ Len(pg.items) = 1 + nc + Len(posts)
            /\ pg.items[1] = [loc |-> <<>>, lastmod |-> Timestamp(S_today, now)]
            /\ {pg.items[k] : k \in 2..(1 + nc)}
                   = {[loc |-> <<c>>, lastmod |-> Timestamp(S_today, now)] : c \in CategorySet}
            /\ \A k \in 1..Len(posts) :
                   pg.items[1 + nc + k]
                       = [loc |-> <<posts[k].category, posts[k].slug>>,
                          lastmod |-> Timestamp(posts[k].date, 0)]

\* the numeric value of a date string YYYY-MM-DD
DateKey(d) ==
    StringToNumber(SubSeq(d, 1, 4)) * 10000 + StringToNumber(SubSeq(d, 6, 7)) * 100
        + StringToNumber(SubSeq(d, 9, 10))

\* post a is listed before post b: later date first, equal dates in encounter order
Before(a, b) == DateKey(a.date) > DateKey(b.date) \/ (DateKey(a.date) = DateKey(b.date) /\ a.src < b.src)

HomePages == pagesAt(dist, Append(DIST_DIR, S_index_html))
AcceptedPosts == {posts[k] : k \in 1..Len(posts)}

\* C4: the recent-posts list of the home page is the first 12 (or all, when
\* fewer) accepted posts in date-descending order, equal dates in the order in
\* which their source files were encountered.
C4_RecentPosts ==
    \A pg \in HomePages :
        LET recent == pg.list
            listed == {recent[k] : k \in 1..Len(recent)}
        IN  /\ Len(recent) = (IF Len(posts) < 12 THEN Len(posts) ELSE 12)
            /\ listed \subseteq AcceptedPosts
            /\ \A i, j \in 1..Len(recent) : i < j => Before(recent[i], recent[j])
            /\ \A p \in AcceptedPosts \ listed : \A q \in listed : Before(q, p)

C4_Witness ==
    \E pg \in HomePages :
        /\ Len(posts) > 12
        /\ Len(pg.list) = 12
        /\ pg.list[1].date = D_2024_03_01 /\ pg.list[1].src > 1
        /\ pg.list[2].date = D_2024_01_01 /\ pg.list[12].date = D_2024_01_01
        /\ \E p \in AcceptedPosts : p.date = D_2023_12_31 /\ p.src < 13

IndexPages == pagesAt(dist, Append(DIST_DIR, S_posts_index_json))
PostPageFiles == {f \in dist.files : f.page.kind = "post"}

\* C11: after a successful build every accepted post has its own page at
\* <category>/<slug>/index.html rendered from that post; the number of post pages
\* equals the number of entries of posts-index.json and the count of the summary
\* line, and no two entries of the index share a permalink.
C11_OnePagePerPost ==
    pc = "done" =>
        /\ \A k \in 1..Len(posts) :
              pagesAt(dist, DIST_DIR \o posts[k].permalink \o <<S_index_html>>)
                  = {Page("post", posts[k].permalink, <<posts[k]>>, "")}
        /\ \A pg \in IndexPages :
              /\ Cardinality(PostPageFiles) = Len(pg.list)
              /\ log[Len(log)].count = Len(pg.list)
              /\ \A i, j \in 1..Len(pg.list) :
                    i # j => pg.list[i].permalink # pg.list[j].permalink

\* source file number i of this run was turned into a post page
TurnedIntoPage(i) == \E w \in writes : w.src = i

\* C12: every source file the build enumerates but does not turn into a post page
\* has a warning or error line logged for it.
C12_SkippedIsLogged ==
    LoopDone =>
        \A i \in 1..Len(mdFiles) :
            ~TurnedIntoPage(i) =>
                \E k \in 1..Len(log) : log[k].src = i /\ log[k].level \in {"warn", "error"}

FeaturedPosts == {p \in AcceptedPosts : p.featured}
SetOf(list) == {list[k] : k \in 1..Len(list)}
Min(a, b) == IF a < b THEN a ELSE b

\* list holds the first n of the posts of set P in date-descending order
FirstOf(list, P, n) ==
    /\ Len(list) = Min(n, Cardinality(P))
    /\ SetOf(list) \subseteq P
    /\ \A i, j \in 1..Len(list) : i < j => Before(list[i], list[j])
    /\ \A p \in P \ SetOf(list) : \A q \in SetOf(list) : Before(q, p)

\* C13: the featured section of the home page exists if and only if an accepted
\* post is featured; it shows the first min(3, f) of the f featured posts in
\* date-descending order and has the "View all featured posts" link if and only
\* if f > 3.
C13_FeaturedSection ==
    \A pg \in HomePages :
        /\ (pg.featured # <<>>) <=> (FeaturedPosts # {})
        /\ FirstOf(pg.featured, FeaturedPosts, 3)
        /\ pg.more <=> Cardinality(FeaturedPosts) > 3
        /\ (pg.moreHref # <<>>) <=> pg.more

C13_Witness ==
    \E pg \in HomePages :
        /\ Cardinality(FeaturedPosts) > 3
        /\ Len(pg.featured) = 3 /\ pg.more
        /\ pg.featured[1].date = D_2024_03_01 /\ pg.featured[1].src > 3

\* C14: for every category c of the category set the home-page card of c lists
\* the first min(8, n) of the n accepted posts of c in date-descending order, the
\* page /<c>/ lists all n of them in the same order, and both list only posts
\* of c.
C14_CategoryLists ==
    \A pg \in HomePages :
        \A c \in CategorySet :
            LET inC == {p \in AcceptedPosts : p.category = c}
                cardsOfC == {i \in 1..Len(pg.cards) : pg.cards[i].cat = c}
            IN  /\ Cardinality(cardsOfC) = 1
                /\ \A i \in cardsOfC : FirstOf(pg.cards[i].list, inC, 8)
                /\ \E cp \in pagesAt(dist, DIST_DIR \o <<c, S_index_html>>) :
                      /\ cp.kind = "category"
                      /\ FirstOf(cp.list, inC, Cardinality(inC))

C14_Witness ==
    \E pg \in HomePages :
        \E i \in 1..Len(pg.cards) :
            /\ Len(pg.cards[i].list) = 8
            /\ pg.cards[i].list[1].date = D_2024_03_01 /\ pg.cards[i].list[1].src > 8
            /\ \E cp \in pagesAt(dist, DIST_DIR \o <<pg.cards[i].cat, S_index_html>>) :
                  Len(cp.list) > 12 /\ cp.list[Len(cp.list)].date = D_2023_12_31

\* the site-internal links of a home page
HomeLinks(pg) ==
    {pg.list[k].permalink : k \in 1..Len(pg.list)}
        \cup {pg.featured[k].permalink : k \in 1..Len(pg.featured)}
        \cup UNION {{pg.cards[i].list[k].permalink : k \in 1..Len(pg.cards[i].list)}
                        : i \in 1..Len(pg.cards)}
        \cup {pg.cards[i].viewAllHref : i \in 1..Len(pg.cards)}
        \cup (IF pg.more THEN {pg.moreHref} ELSE {})

\* C17: every site-internal link on the home page (post permalinks of the
\* featured, recent and category lists, the cards' "View all" links and the
\* "View all featured posts" link) points to a page the same build has written.
C17_HomeLinksResolve ==
    pc = "done" =>
        \A pg \in HomePages :
            \A href \in HomeLinks(pg) :
                pagesAt(dist, DIST_DIR \o href \o <<S_index_html>>) # {}

---------------------------------------------------------------------------
(* Heading anchors: slugify and extractHeadingsAndAddIds *)

IdleBuild ==
    /\ tree = <<>> /\ templates = TRUE /\ dist = EmptyDist /\ mdFiles = <<>>
    /\ posts = <<>> /\ idx = 1 /\ pc = "idle" /\ run = 1 /\ now = 1
    /\ writes = {} /\ log = <<>> /\ first = [dist |-> EmptyDist, pc |-> "none"]

\* String.prototype.trim
RECURSIVE trim(_)
trim(s) ==
    IF s = <<>> THEN s
    ELSE IF s[1] \in WhiteSpace THEN trim(Tail(s))
    ELSE IF s[Len(s)] \in WhiteSpace THEN trim(SubSeq(s, 1, Len(s) - 1))
    ELSE s

\* s.replace(/[class]+/g, c): every maximal run of characters of class becomes c
RECURSIVE replaceRuns(_, _, _)
replaceRuns(s, class, c) ==
    IF s = <<>> THEN <<>>
    ELSE IF s[1] \notin class THEN <<s[1]>> \o replaceRuns(Tail(s), class, c)
    ELSE IF Len(s) > 1 /\ s[2] \in class THEN replaceRuns(Tail(s), class, c)
    ELSE <<c>> \o replaceRuns(Tail(s), class, c)

\* \p{L} and \p{N}, restricted to the characters modelled
Letter == LowerAZ \cup UpperAZ

\* s.replace(/^-|-$/g, "")
stripHyphenEnds(s) ==
    LET a == IF s # <<>> /\ s[1] = "-" THEN Tail(s) ELSE s
    IN  IF a # <<>> /\ a[Len(a)] = "-" THEN SubSeq(a, 1, Len(a) - 1) ELSE a

slugify(text) ==
    LET a == toLowerCase(trim(text))
        b == replaceRuns(a, WhiteSpace, "-")
        c == SelectSeq(b, LAMBDA ch : ch \in Letter \cup Digit \cup {"-"})
        d == replaceRuns(c, {"-"}, "-")
        slug == stripHyphenEnds(d)
    IN  IF slug = <<>> THEN S_heading ELSE slug

\* position of the first ">" of s at or after i (0: none)
RECURSIVE indexOfGt(_, _)
indexOfGt(s, i) ==
    IF i > Len(s) THEN 0 ELSE IF s[i] = ">" THEN i ELSE indexOfGt(s, i + 1)

\* inner.replace(/<[^>]+>/g, "")
RECURSIVE stripTags(_)
stripTags(s) ==
    IF s = <<>> THEN <<>>
    ELSE IF s[1] = "<" /\ indexOfGt(s, 2) > 2
         THEN stripTags(SubSeq(s, indexOfGt(s, 2) + 1, Len(s)))
         ELSE <<s[1]>> \o stripTags(Tail(s))

\* an if in place of the while: one suffix is tried, whether it is free or not
uniqueIdOneTry(id, counter, used) ==
    IF id \in used THEN id \o <<"-">> \o NumberToString(counter) ELSE id

\* let uniqueId = id; let counter = 1;
\* while (usedIds.has(uniqueId)) uniqueId = `${id}-${counter++}`;
\* counter is the next suffix to try (0: the bare id has not been tried)
RECURSIVE uniqueIdFrom(_, _, _)
uniqueIdFrom(id, counter, used) ==
    LET candidate == IF counter = 0 THEN id ELSE id \o <<"-">> \o NumberToString(counter)
    IN  IF candidate \in used THEN uniqueIdFrom(id, counter + 1, used) ELSE candidate

uniqueId(id, counter, used) == uniqueIdFrom(id, counter - 1, used)

\* /<(h[23])([^>]*)>(.*?)<\/\1>/gi matches the element: an h2 or h3 whose content
\* has no line terminator
isHeadingMatch(el) ==
    el.tag \in {"h2", "h3"} /\ \A i \in 1..Len(el.inner) : el.inner[i] \notin LineTerminator

T_foo == <<"f","o","o">>
T_Foo_bang == <<"F","o","o","!">>
T_foo_1 == <<"f","o","o","-","1">>
T_b_foo_1 == <<"<","b",">","f","o","o","<","/","b",">"," ","1">>

Element(tag, inner) == [tag |-> tag, inner |-> inner, id |-> <<>>]

\* the elements a rendered post is made of here
ElementPool ==
    { Element("h2", T_foo), Element("h3", T_Foo_bang), Element("h2", T_foo_1),
      Element("h3", T_b_foo_1), Element("h2", <<>>), Element("p", T_foo) }

MaxHeadings == 4

RECURSIVE htmlOfLen(_)
htmlOfLen(n) ==
    IF n = 0 THEN {<<>>}
    ELSE {Append(h, e) : h \in htmlOfLen(n - 1), e \in ElementPool}

InitHeadings ==
    /\ htmlContent \in UNION {htmlOfLen(n) : n \in 0..MaxHeadings}
    /\ hpos = 1
    /\ usedIds = {}
    /\ headings = <<>>
    /\ IdleBuild /\ IdleLink /\ IdleRead /\ IdleComp /\ IdleTheme

\* the replace callback, called for the next element the expression matches
ReplaceHeading ==
    /\ hpos <= Len(htmlContent)
    /\ isHeadingMatch(htmlContent[hpos])
    /\ LET el == htmlContent[hpos]
           level == IF el.tag = "h2" THEN 2 ELSE 3
           plainText == trim(stripTags(el.inner))
           id == slugify(plainText)
           unique_id == uniqueId(id, 1, usedIds)
       IN  /\ usedIds' = usedIds \cup {unique_id}
           /\ headings' = Append(headings, [level |-> level, text |-> plainText, id |-> unique_id])
           /\ htmlContent' = [htmlContent EXCEPT ![hpos].id = unique_id]
    /\ hpos' = hpos + 1
    /\ UNCHANGED <<buildVars, linkVars, readVars, compVars, themeVars>>

\* text the expression does not match is copied as it is
SkipElement ==
    /\ hpos <= Len(htmlContent)
    /\ ~isHeadingMatch(htmlContent[hpos])
    /\ hpos' = hpos + 1
    /\ UNCHANGED <<htmlContent, usedIds, headings, buildVars, linkVars, readVars, compVars, themeVars>>

NextHeadings == ReplaceHeading \/ SkipElement

SpecHeadings == InitHeadings /\ [][NextHeadings]_vars

\* ids given to the headings before heading j
EarlierIds(j) == {headings[i].id : i \in 1..(j - 1)}
Suffixed(s, k) == s \o <<"-">> \o NumberToString(k)

\* number of headings before heading j whose text slugifies as that of heading j
Repeats(j) == Cardinality({i \in 1..(j - 1) : slugify(headings[i].text) = slugify(headings[j].text)})

IdsDistinct == \A i, j \in 1..Len(headings) : i # j => headings[i].id # headings[j].id

\* C5 as stated: no two headings of a post get the same id, and the headings whose
\* text slugifies to foo receive, in document order, foo, foo-1, foo-2, ...
C5_IdsUniqueAndNumbered ==
    /\ IdsDistinct
    /\ \A j \in 1..Len(headings) :
          headings[j].id = IF Repeats(j) = 0 THEN slugify(headings[j].text)
                           ELSE Suffixed(slugify(headings[j].text), Repeats(j))

\* C5 as amended: no two headings of a post get the same id; a heading whose text
\* slugifies to s receives s when no earlier heading received s, and otherwise
\* s-k for the smallest k >= 1 such that no earlier heading received s-k.
C5_IdsUniqueAndFirstFree ==
    /\ IdsDistinct
    /\ \A j \in 1..Len(headings) :
          LET s == slugify(headings[j].text)
          IN  IF s \notin EarlierIds(j) THEN headings[j].id = s
              ELSE \E k \in 1..j :
                      /\ headings[j].id = Suffixed(s, k)
                      /\ Suffixed(s, k) \notin EarlierIds(j)
                      /\ \A m \in 1..(k - 1) : Suffixed(s, m) \in EarlierIds(j)

C5_Witness ==
    /\ Len(headings) = 4
    /\ hpos > Len(htmlContent)
    /\ headings[1].id = T_foo_1 /\ headings[1].text = T_foo_1
    /\ headings[2].id = T_foo
    /\ headings[3].id = Suffixed(T_foo, 2)
    /\ headings[4].id = Suffixed(T_foo_1, 1)

---------------------------------------------------------------------------
(* Link rendering: isValidUrl and md.renderer.rules.link_open *)

H_js_alert == <<"j","a","v","a","s","c","r","i","p","t",":","a","l","e","r","t","(","1",")">>
H_JaVaScRiPt == <<"J","a","V","a","S","c","R","i","P","t",":","x">>
H_data == <<"d","a","t","a",":","t","e","x","t","/","h","t","m","l",",","x">>
H_VBSCRIPT == <<"V","B","S","C","R","I","P","T",":","x">>
H_file == <<"f","i","l","e",":","/","/","/","e","t","c","/","p","a","s","s","w","d">>
H_sp_javascript == <<" ","j","a","v","a","s","c","r","i","p","t",":","x">>
H_javascript_nocolon == <<"j","a","v","a","s","c","r","i","p","t">>
H_xjavascript == <<"x","j","a","v","a","s","c","r","i","p","t",":","y">>
H_https == <<"h","t","t","p","s",":","/","/","a",".","b","/","c">>
H_hash_top == <<"#","t","o","p">>
R_nofollow == <<"n","o","f","o","l","l","o","w">>
R_NoOpener == <<"N","o","O","p","e","n","e","r">>
R_ugc == <<"u","g","c">>
S_javascript == <<"j","a","v","a","s","c","r","i","p","t">>
S_data == <<"d","a","t","a">>
S_vbscript == <<"v","b","s","c","r","i","p","t">>
S_file == <<"f","i","l","e">>

DangerousProtocols == {S_javascript, S_data, S_vbscript, S_file}

\* the expression without its i flag
isValidUrlCaseSensitive(url) ==
    ~\E proto \in DangerousProtocols : startsWith(url, Append(proto, ":"))

\* !/^(javascript|data|vbscript|file):/i.test(url)
isValidUrl(url) ==
    ~\E proto \in DangerousProtocols : startsWith(toLowerCase(url), Append(proto, ":"))

\* Token.attrGet(name): [found, value]; found = FALSE stands for null
attrGet(attrs, name) ==
    LET at == {i \in 1..Len(attrs) : attrs[i].name = name}
    IN  IF at = {} THEN [found |-> FALSE, value |-> <<>>]
        ELSE [found |-> TRUE, value |-> attrs[CHOOSE i \in at : \A j \in at : i <= j].value]

\* Token.attrSet(name, value): replaces the attribute, or adds it at the end
attrSet(attrs, name, value) ==
    LET at == {i \in 1..Len(attrs) : attrs[i].name = name}
    IN  IF at = {} THEN Append(attrs, [name |-> name, value |-> value])
        ELSE [attrs EXCEPT ![CHOOSE i \in at : \A j \in at : i <= j].value = value]

\* s.split(/\s+/).filter(Boolean): the maximal runs of non-whitespace characters
RECURSIVE splitWhitespace(_)
splitWhitespace(s) ==
    IF s = <<>> THEN <<>>
    ELSE LET front == splitWhitespace(SubSeq(s, 1, Len(s) - 1))
             c == s[Len(s)]
         IN  IF c \in WhiteSpace THEN front
             ELSE IF Len(s) > 1 /\ s[Len(s) - 1] \notin WhiteSpace
                  THEN [front EXCEPT ![Len(front)] = Append(@, c)]
                  ELSE Append(front, <<c>>)

\* Array.prototype.join(" ")
RECURSIVE joinSpace(_)
joinSpace(ts) ==
    IF ts = <<>> THEN <<>>
    ELSE IF Len(ts) = 1 THEN ts[1]
    ELSE joinSpace(SubSeq(ts, 1, Len(ts) - 1)) \o <<" ">> \o ts[Len(ts)]

\* the two tokens appended to the attribute as it is, without the Set
relAppended(rel) == joinSpace(splitWhitespace(rel) \o <<S_noopener, S_noreferrer>>)

\* relSet = new Set(rel.split(/\s+/).filter(Boolean)); add noopener, noreferrer;
\* Array.from(relSet).join(" ")
relWithNoopener(rel) == joinSpace(unique(splitWhitespace(rel) \o <<S_noopener, S_noreferrer>>))

\* the rule: the attrs of the token when it is handed to renderToken
link_open(attrs) ==
    LET href == attrGet(attrs, "href")
        a1 == IF href.found /\ href.value # <<>> /\ ~isValidUrl(href.value)
              THEN attrSet(attrs, "href", S_hash) ELSE attrs
        got == attrGet(a1, "rel")
        rel == IF got.found /\ got.value # <<>> THEN got.value ELSE <<>>
    IN  attrSet(a1, "rel", relWithNoopener(rel))

HrefPool == {H_js_alert, H_JaVaScRiPt, H_data, H_VBSCRIPT, H_file, H_sp_javascript,
             H_javascript_nocolon, H_xjavascript, H_https, H_hash_top, <<>>}

\* the relation tokens a link may already carry, and the whitespace between them
RelTokenLists == {<<>>, <<R_nofollow>>, <<S_noopener>>, <<S_noreferrer, S_noopener>>,
                  <<R_nofollow, R_nofollow>>, <<R_NoOpener>>, <<R_nofollow, R_ugc>>,
                  <<S_noopener, R_ugc, S_noopener>>}
RelSeparators == {<<" ">>, <<" ", " ">>, <<"\t">>}
RelPadding == {<<>>, <<" ">>}

RECURSIVE joinWith(_, _)
joinWith(ts, sep) ==
    IF ts = <<>> THEN <<>>
    ELSE IF Len(ts) = 1 THEN ts[1]
    ELSE joinWith(SubSeq(ts, 1, Len(ts) - 1), sep) \o sep \o ts[Len(ts)]

attr(name, value) == [name |-> name, value |-> value]

\* link tokens: with or without href, with or without rel, rel before or after href
InitLink ==
    /\ \E h \in HrefPool, ts \in RelTokenLists, sep \in RelSeparators, pad \in RelPadding,
          shape \in {"href", "href rel", "rel href", "rel"} :
          LET relValue == pad \o joinWith(ts, sep) \o pad
          IN  /\ token = CASE shape = "href" -> <<attr("href", h)>>
                           [] shape = "href rel" -> <<attr("href", h), attr("rel", relValue)>>
                           [] shape = "rel href" -> <<attr("rel", relValue), attr("href", h)>>
                           [] shape = "rel" -> <<attr("rel", relValue)>>
              /\ relBefore = IF shape = "href" THEN {} ELSE {ts[i] : i \in 1..Len(ts)}
    /\ rendered = FALSE
    /\ IdleBuild /\ IdleHead /\ IdleRead /\ IdleComp /\ IdleTheme

RenderLinkOpen ==
    /\ ~rendered
    /\ token' = link_open(token)
    /\ rendered' = TRUE
    /\ UNCHANGED <<relBefore, buildVars, headVars, readVars, compVars, themeVars>>

NextLink == RenderLinkOpen

SpecLink == InitLink /\ [][NextLink]_vars

\* the values of attribute name of the token
AttrValues(name) == {token[i].value : i \in {j \in 1..Len(token) : token[j].name = name}}

\* the places of s where t stands as a whole whitespace-delimited token
TokenPlaces(s, t) ==
    {i \in 1..Len(s) :
        /\ i + Len(t) - 1 <= Len(s)
        /\ SubSeq(s, i, i + Len(t) - 1) = t
        /\ (i = 1 \/ s[i - 1] \in WhiteSpace)
        /\ (i + Len(t) - 1 = Len(s) \/ s[i + Len(t)] \in WhiteSpace)}

BeginsWithDangerousScheme(url) ==
    \E proto \in DangerousProtocols :
        /\ Len(url) > Len(proto)
        /\ \A i \in 1..Len(proto) : toLowerCaseChar(url[i]) = proto[i]
        /\ url[Len(proto) + 1] = ":"

\* C6: a rendered link has no href beginning with javascript:, data:, vbscript: or
\* file: in any letter case, and a rel attribute that holds noopener and
\* noreferrer exactly once each together with every relation token it already had.
C6_LinkHardened ==
    rendered =>
        /\ \A h \in AttrValues("href") : ~BeginsWithDangerousScheme(h)
        /\ Cardinality({i \in 1..Len(token) : token[i].name = "rel"}) = 1
        /\ \A r \in AttrValues("rel") :
              /\ Cardinality(TokenPlaces(r, S_noopener)) = 1
              /\ Cardinality(TokenPlaces(r, S_noreferrer)) = 1
              /\ \A t \in relBefore : TokenPlaces(r, t) # {}

C6_Witness ==
    /\ rendered
    /\ AttrValues("href") = {S_hash}
    /\ relBefore = {S_noopener, R_ugc}

---------------------------------------------------------------------------
(* Reading time: calculateReadingTime *)

WordsPerMinute == 238

\* markdownContent.split(/\s+/).filter(word => word.length > 0).length: the
\* non-empty pieces between whitespace runs, counted by the places where one begins
wordCount(markdownContent) ==
    Cardinality({i \in 1..Len(markdownContent) :
                    /\ markdownContent[i] \notin WhiteSpace
                    /\ (i = 1 \/ markdownContent[i - 1] \in WhiteSpace)})

\* Math.ceil(a / b) for a >= 0, b > 0
ceilDiv(a, b) == (a + b - 1) \div b

Max(a, b) == IF a >= b THEN a ELSE b

\* the minutes rounded down instead of up
calculateReadingTimeFloor(markdownContent) ==
    NumberToString(Max(1, wordCount(markdownContent) \div WordsPerMinute)) \o S_min

\* `${Math.max(1, Math.ceil(wordCount / 238))} min`
calculateReadingTime(markdownContent) ==
    NumberToString(Max(1, ceilDiv(wordCount(markdownContent), WordsPerMinute))) \o S_min

MaxWords == 480
VaryLen == 3

\* the characters bodies are typed from
BodyChars == {"a", " ", "\n"}

InitRead ==
    /\ body = <<>>
    /\ nWords = 0
    /\ rt = calculateReadingTime(<<>>)
    /\ rtPrev = calculateReadingTime(<<>>)
    /\ IdleBuild /\ IdleHead /\ IdleLink /\ IdleComp /\ IdleTheme

startsWord(b, c) == c \notin WhiteSpace /\ (b = <<>> \/ b[Len(b)] \in WhiteSpace)

\* one more character of the body; the reading time is computed for the new body
typeChar(c) ==
    /\ body' = Append(body, c)
    /\ nWords' = IF startsWord(body, c) THEN nWords + 1 ELSE nWords
    /\ rt' = calculateReadingTime(body')
    /\ rtPrev' = rt
    /\ UNCHANGED <<buildVars, headVars, linkVars, compVars, themeVars>>

\* the first VaryLen characters are any characters
TypeAny ==
    /\ Len(body) < VaryLen
    /\ \E c \in BodyChars : typeChar(c)

\* after them one-letter words and single spaces alternate
TypeOn ==
    /\ Len(body) >= VaryLen
    /\ IF body[Len(body)] \in WhiteSpace
       THEN nWords < MaxWords /\ typeChar("a")
       ELSE typeChar(" ")

NextRead == TypeAny \/ TypeOn

SpecRead == InitRead /\ [][NextRead]_vars

\* the number n of a reading time "<n> min"
MinutesOf(r) == StringToNumber(SubSeq(r, 1, Len(r) - Len(S_min)))

\* the least n >= 1 with n * 238 >= w
ExpectedMinutes(w) == CHOOSE n \in 1..(w + 1) : n * 238 >= w /\ (n = 1 \/ (n - 1) * 238 < w)

\* C8: calculateReadingTime returns "<n> min" with n = max(1, ceil(w / 238)), w the
\* number of non-empty whitespace-delimited tokens of the body; n >= 1 for every
\* body, and n does not decrease when w increases.
C8_ReadingTime ==
    /\ rt = NumberToString(ExpectedMinutes(nWords)) \o <<" ", "m", "i", "n">>
    /\ MinutesOf(rt) >= 1
    /\ MinutesOf(rt) >= MinutesOf(rtPrev)

C8_Witness == nWords = 477 /\ MinutesOf(rt) = 3 /\ MinutesOf(rtPrev) = 2

---------------------------------------------------------------------------
(* The template compositor: escapeHtml, buildMetaTags, injectMetaIntoHead,
   renderIndexTemplate and the substitution chain of main *)

IdleAllButComp == IdleBuild /\ IdleHead /\ IdleLink /\ IdleRead /\ IdleTheme

\* the SITE object (og.title is og_title, and so on)
SITE ==
    [ title |->
          <<"b","y","-","h","a","h","n","'","s"," ","P","e","r","s","o","n","a","l"," ","B","l",
            "o","g">>,
      description |->
          <<"B","."," ","H","a","h","n","'","s"," ","c","a","r","e","e","r"," ","j","o","u","r",
            "n","e","y"," ","a","c","r","o","s","s"," ","d","e","v","e","l","o","p","m","e","n",
            "t",","," ","r","e","s","e","a","r","c","h",","," ","a","n","d"," ","l","e","a","r",
            "n","i","n","g",".">>,
      url |->
          <<"h","t","t","p","s",":","/","/","b","l","o","g",".","b","y","-","h","a","h","n",".",
            "c","o","m">>,
      og_title |->
          <<"B","."," ","H","a","h","n"," ","(","b","y","-","h","a","h","n",")","'","s"," ","P",
            "e","r","s","o","n","a","l"," ","B","l","o","g">>,
      og_description |->
          <<"B","."," ","H","a","h","n","'","s"," ","c","a","r","e","e","r"," ","j","o","u","r",
            "n","e","y"," ","a","c","r","o","s","s"," ","d","e","v","e","l","o","p","m","e","n",
            "t",","," ","r","e","s","e","a","r","c","h",","," ","a","n","d"," ","l","e","a","r",
            "n","i","n","g",".">>,
      og_image |->
          <<"h","t","t","p","s",":","/","/","b","l","o","g",".","b","y","-","h","a","h","n",".",
            "c","o","m","/","o","g","/","d","e","f","a","u","l","t",".","p","n","g">>,
      og_type |->
          <<"w","e","b","s","i","t","e">> ]

\* the marker comments of the templates
Hook ==
    [ META |->
          <<"<","!","-","-"," ","_","_","M","E","T","A","_","_"," ","-","-",">">>,
      FEATURED_POSTS |->
          <<"<","!","-","-"," ","_","_","F","E","A","T","U","R","E","D","_","P","O","S","T","S",
            "_","_"," ","-","-",">">>,
      RECENT_POSTS |->
          <<"<","!","-","-"," ","_","_","R","E","C","E","N","T","_","P","O","S","T","S","_","_",
            " ","-","-",">">>,
      CATEGORY_CARDS |->
          <<"<","!","-","-"," ","_","_","C","A","T","E","G","O","R","Y","_","C","A","R","D","S",
            "_","_"," ","-","-",">">> ]

\* the placeholders of template-post.html
Placeholder ==
    [ TITLE |->
          <<"_","_","T","I","T","L","E","_","_">>,
      SUBTITLE |->
          <<"_","_","S","U","B","T","I","T","L","E","_","_">>,
      DATE |->
          <<"_","_","D","A","T","E","_","_">>,
      READING_TIME |->
          <<"_","_","R","E","A","D","I","N","G","_","T","I","M","E","_","_">>,
      CONTENT |->
          <<"_","_","C","O","N","T","E","N","T","_","_">>,
      TOC |->
          <<"_","_","T","O","C","_","_">>,
      MOBILE_TOC |->
          <<"_","_","M","O","B","I","L","E","_","T","O","C","_","_">>,
      CATEGORY |->
          <<"_","_","C","A","T","E","G","O","R","Y","_","_">>,
      CATEGORY_LABEL |->
          <<"_","_","C","A","T","E","G","O","R","Y","_","L","A","B","E","L","_","_">> ]

\* the entities escapeHtml writes
Entity ==
    [ amp |->
          <<"&","a","m","p",";">>,
      lt |->
          <<"&","l","t",";">>,
      gt |->
          <<"&","g","t",";">>,
      quot |->
          <<"&","q","u","o","t",";">>,
      apos |->
          <<"&","#","3","9",";">> ]

\* the lines of the metadata block, up to the value and after it
MetaLine ==
    [ description |->
          <<"<","m","e","t","a"," ","n","a","m","e","=","\"","d","e","s","c","r","i","p","t","i",
            "o","n","\""," ","c","o","n","t","e","n","t","=","\"">>,
      canonical |->
          <<"<","l","i","n","k"," ","r","e","l","=","\"","c","a","n","o","n","i","c","a","l",
            "\""," ","h","r","e","f","=","\"">>,
      og_title |->
          <<"<","m","e","t","a"," ","p","r","o","p","e","r","t","y","=","\"","o","g",":","t","i",
            "t","l","e","\""," ","c","o","n","t","e","n","t","=","\"">>,
      og_description |->
          <<"<","m","e","t","a"," ","p","r","o","p","e","r","t","y","=","\"","o","g",":","d","e",
            "s","c","r","i","p","t","i","o","n","\""," ","c","o","n","t","e","n","t","=","\"">>,
      og_type |->
          <<"<","m","e","t","a"," ","p","r","o","p","e","r","t","y","=","\"","o","g",":","t","y",
            "p","e","\""," ","c","o","n","t","e","n","t","=","\"">>,
      og_url |->
          <<"<","m","e","t","a"," ","p","r","o","p","e","r","t","y","=","\"","o","g",":","u","r",
            "l","\""," ","c","o","n","t","e","n","t","=","\"">>,
      og_image |->
          <<"<","m","e","t","a"," ","p","r","o","p","e","r","t","y","=","\"","o","g",":","i","m",
            "a","g","e","\""," ","c","o","n","t","e","n","t","=","\"">>,
      end |->
          <<"\""," ","/",">">>,
      join |->
          <<"\n"," "," ">> ]

\* literals of injectMetaIntoHead, renderIndexTemplate and main
Lit ==
    [ head_close |->
          <<"<","/","h","e","a","d",">">>,
      rel_canonical |->
          <<"r","e","l","=","\"","c","a","n","o","n","i","c","a","l","\"">>,
      rel_eq |->
          <<"r","e","l","=">>,
      canonical |->
          <<"c","a","n","o","n","i","c","a","l">>,
      property_eq |->
          <<"p","r","o","p","e","r","t","y","=">>,
      og_title |->
          <<"o","g",":","t","i","t","l","e">>,
      article |->
          <<"a","r","t","i","c","l","e">>,
      website |->
          <<"w","e","b","s","i","t","e">> ]

\* String.prototype.indexOf(sub, from), positions counted from 1; 0: not found
indexOfFrom(s, sub, from) ==
    LET at == {i \in from..(Len(s) - Len(sub) + 1) : SubSeq(s, i, i + Len(sub) - 1) = sub}
    IN  IF at = {} THEN 0 ELSE CHOOSE i \in at : \A j \in at : i <= j

\* GetSubstitution for a string pattern: in the replacement text $$ is $, $& the
\* matched text, $` the text before the match and $' the text after it
RECURSIVE getSubstitution(_, _, _, _)
getSubstitution(replacement, matched, before, after) ==
    LET d == indexOfFrom(replacement, <<"$">>, 1)
    IN  IF d = 0 \/ d = Len(replacement) THEN replacement
        ELSE LET front == SubSeq(replacement, 1, d - 1)
                 c == replacement[d + 1]
                 rest == SubSeq(replacement, d + 2, Len(replacement))
             IN  IF c = "$" THEN front \o <<"$">> \o getSubstitution(rest, matched, before, after)
                 ELSE IF c = "&" THEN front \o matched \o getSubstitution(rest, matched, before, after)
                 ELSE IF c = "`" THEN front \o before \o getSubstitution(rest, matched, before, after)
                 ELSE IF c = "'" THEN front \o after \o getSubstitution(rest, matched, before, after)
                 ELSE front \o <<"$">>
                      \o getSubstitution(SubSeq(replacement, d + 1, Len(replacement)),
                                         matched, before, after)

\* String.prototype.replace(pattern, replacement), both strings: the first match
replace(s, pattern, replacement) ==
    LET i == indexOfFrom(s, pattern, 1)
    IN  IF i = 0 THEN s
        ELSE LET before == SubSeq(s, 1, i - 1)
                 after == SubSeq(s, i + Len(pattern), Len(s))
             IN  before \o getSubstitution(replacement, pattern, before, after) \o after

\* String.prototype.replaceAll(pattern, replacement): every match, left to right,
\* the text put in is not searched again
RECURSIVE replaceAllFrom(_, _, _, _)
replaceAllFrom(s, pattern, replacement, from) ==
    LET i == indexOfFrom(s, pattern, from)
    IN  IF i = 0 THEN SubSeq(s, from, Len(s))
        ELSE SubSeq(s, from, i - 1)
             \o getSubstitution(replacement, pattern, SubSeq(s, 1, i - 1),
                                SubSeq(s, i + Len(pattern), Len(s)))
             \o replaceAllFrom(s, pattern, replacement, i + Len(pattern))

replaceAll(s, pattern, replacement) == replaceAllFrom(s, pattern, replacement, 1)

escapeHtml(s) ==
    replaceAll(replaceAll(replaceAll(replaceAll(replaceAll(s,
        <<"&">>, Entity.amp), <<"<">>, Entity.lt), <<">">>, Entity.gt), <<"\"">>, Entity.quot), <<"'">>, Entity.apos)

toUpperCaseChar(c) ==
    IF \E i \in 1..26 : Letters[i] = c
    THEN LET i == CHOOSE i \in 1..26 : Letters[i] = c
         IN  <<"A","B","C","D","E","F","G","H","I","J","K","L","M",
               "N","O","P","Q","R","S","T","U","V","W","X","Y","Z">>[i]
    ELSE c

\* \w of a regular expression
WordChar == LowerAZ \cup UpperAZ \cup Digit \cup {"_"}

\* humanize: "-" becomes " ", the first character of every word is upper-cased
humanize(s) ==
    LET spaced == [i \in 1..Len(s) |-> IF s[i] = "-" THEN " " ELSE s[i]]
    IN  [i \in 1..Len(spaced) |->
            IF spaced[i] \in WordChar /\ (i = 1 \/ spaced[i - 1] \notin WordChar)
            THEN toUpperCaseChar(spaced[i]) ELSE spaced[i]]

\* the permalink as text: `/${category}/${slug}/`
permalinkText(category, slug) == <<"/">> \o category \o <<"/">> \o slug \o <<"/">>

\* SITE.url.replace(/\/$/, "") + pathname
fullUrlFromPath(pathname) ==
    (IF endsWith(SITE.url, <<"/">>) THEN SubSeq(SITE.url, 1, Len(SITE.url) - 1) ELSE SITE.url)
        \o pathname

\* Array.prototype.join
RECURSIVE join(_, _)
join(lines, sep) ==
    IF lines = <<>> THEN <<>>
    ELSE IF Len(lines) = 1 THEN lines[1]
    ELSE lines[1] \o sep \o join(Tail(lines), sep)

\* String.prototype.split("\n")
RECURSIVE splitLines(_)
splitLines(s) ==
    LET i == indexOfFrom(s, <<"\n">>, 1)
    IN  IF i = 0 THEN <<s>>
        ELSE <<SubSeq(s, 1, i - 1)>> \o splitLines(SubSeq(s, i + 1, Len(s)))

buildMetaTags(title, description, fullUrl, type, og_image) ==
    LET t == escapeHtml(IF title # <<>> THEN title ELSE SITE.title)
        d == escapeHtml(IF description # <<>> THEN description ELSE SITE.description)
        u == escapeHtml(fullUrl)
        img == IF og_image # <<>> THEN escapeHtml(og_image) ELSE <<>>
        lines == << MetaLine.description \o d \o MetaLine.end,
                    MetaLine.canonical \o u \o MetaLine.end,
                    MetaLine.og_title \o t \o MetaLine.end,
                    MetaLine.og_description \o d \o MetaLine.end,
                    MetaLine.og_type \o escapeHtml(type) \o MetaLine.end,
                    MetaLine.og_url \o u \o MetaLine.end,
                    IF img # <<>> THEN MetaLine.og_image \o img \o MetaLine.end ELSE <<>> >>
    IN  join(SelectSeq(lines, LAMBDA l : l # <<>>), MetaLine.join)

\* /name=["']value["']/i.test(html)
testAttribute(html, name, value) ==
    \E i \in 1..Len(html) :
        LET j == i + Len(name)
            k == j + 1 + Len(value)
        IN  /\ k <= Len(html)
            /\ toLowerCase(SubSeq(html, i, j - 1)) = name
            /\ html[j] \in {"\"", "'"}
            /\ toLowerCase(SubSeq(html, j + 1, k - 1)) = value
            /\ html[k] \in {"\"", "'"}

injectMetaIntoHead(html, metaBlock) ==
    IF includes(html, Hook.META) THEN replace(html, Hook.META, metaBlock)
    ELSE LET hasCanonical == testAttribute(html, Lit.rel_eq, Lit.canonical)
             hasOgTitle == testAttribute(html, Lit.property_eq, Lit.og_title)
             canonicalOnly ==
                 join(SelectSeq(splitLines(metaBlock), LAMBDA line : includes(line, Lit.rel_canonical)),
                      MetaLine.join)
         IN  IF ~hasCanonical /\ ~hasOgTitle
             THEN replace(html, Lit.head_close, <<" ", " ">> \o metaBlock \o <<"\n">> \o Lit.head_close)
             ELSE IF ~hasCanonical /\ canonicalOnly # <<>>
             THEN replace(html, Lit.head_close, <<" ", " ">> \o canonicalOnly \o <<"\n">> \o Lit.head_close)
             ELSE html

\* the metadata block of the home page and of the category pages
indexMeta(canonicalPath) ==
    buildMetaTags(IF SITE.og_title # <<>> THEN SITE.og_title ELSE SITE.title,
                  IF SITE.og_description # <<>> THEN SITE.og_description
                  ELSE SITE.description,
                  SITE.url \o canonicalPath,
                  IF SITE.og_type # <<>> THEN SITE.og_type ELSE Lit.website,
                  SITE.og_image)

renderIndexTemplate(indexTpl, canonicalPath, recentHtml, categoryCardsHtml, featuredHtml) ==
    LET meta == indexMeta(canonicalPath)
        html == injectMetaIntoHead(indexTpl, meta)
    IN  replace(replace(replace(html, Hook.FEATURED_POSTS, featuredHtml),
                        Hook.RECENT_POSTS, recentHtml),
                Hook.CATEGORY_CARDS, categoryCardsHtml)

\* the metadata block of the page of post c
postMeta(c) ==
    buildMetaTags(IF c.og_title # <<>> THEN c.og_title ELSE c.title,
                  c.description,
                  fullUrlFromPath(permalinkText(c.category, c.slug)),
                  Lit.article, c.og_image)

\* outHtml = postTpl.replace("<!-- __META__ -->", meta).replaceAll("__TITLE__", ...)...
renderPostTemplate(postTpl, c) ==
    LET s0 == replace(postTpl, Hook.META, postMeta(c))
        s1 == replaceAll(s0, Placeholder.TITLE, escapeHtml(c.title))
        s2 == replaceAll(s1, Placeholder.SUBTITLE, escapeHtml(c.subtitle))
        s3 == replaceAll(s2, Placeholder.DATE, escapeHtml(c.date))
        s4 == replaceAll(s3, Placeholder.READING_TIME, escapeHtml(c.readingTime))
        s5 == replaceAll(s4, Placeholder.CONTENT, c.processedHtml)
        s6 == replaceAll(s5, Placeholder.TOC, c.tocHtml)
        s7 == replaceAll(s6, Placeholder.MOBILE_TOC, c.mobileTocHtml)
        s8 == replaceAll(s7, Placeholder.CATEGORY, c.category)
    IN  replaceAll(s8, Placeholder.CATEGORY_LABEL, escapeHtml(humanize(c.category)))

---------------------------------------------------------------------------
(* Pages the compositor is run on *)

\* values pages are composed from: plain text, text with the five special characters,
\* text that is itself a placeholder, text with a $ pattern, and rendered fragments
Sample ==
    [ plain |->
          <<"H","i">>,
      specials |->
          <<"R","&","D"," ","<","\"","x","\"",">","'","s">>,
      placeholder |->
          <<"_","_","C","O","N","T","E","N","T","_","_">>,
      dollar |->
          <<"$","&">>,
      sub |->
          <<"s","u","b">>,
      desc |->
          <<"d"," ","\"","q","\"">>,
      og |->
          <<"O","G">>,
      image |->
          <<"h","t","t","p","s",":","/","/","x",".","i","o","/","a","?","b","&","c">>,
      content |->
          <<"<","p",">","x","<","/","p",">">>,
      toc |->
          <<"<","u","l"," ","c","l","a","s","s","=","\"","t","o","c","-","l","i","s","t","\"",
            ">","t","<","/","u","l",">">>,
      mobile_toc |->
          <<"<","d","e","t","a","i","l","s"," ","c","l","a","s","s","=","\"","m","o","b","i","l",
            "e","-","t","o","c","\"",">","t","<","/","d","e","t","a","i","l","s",">">>,
      recent |->
          <<"<","u","l"," ","c","l","a","s","s","=","\"","p","o","s","t","s","\"",">","r","<",
            "/","u","l",">">>,
      cards |->
          <<"<","d","i","v"," ","c","l","a","s","s","=","\"","c","a","r","d","\"",">","c","<",
            "/","d","i","v",">">>,
      featured |->
          <<"<","d","i","v"," ","c","l","a","s","s","=","\"","c","a","r","d","\"",">","f","<",
            "/","d","i","v",">">>,
      home |->
          <<"/">>,
      category |->
          <<"/","p","o","s","t","s","/">> ]

\* the pieces templates are put together from
Tp ==
    [ head_open |->
          <<"<","h","e","a","d",">">>,
      canonical |->
          <<"<","l","i","n","k"," ","r","e","l","=","\"","c","a","n","o","n","i","c","a","l",
            "\""," ","h","r","e","f","=","\"","/","x","\""," ","/",">","\n">>,
      canonical_upper |->
          <<"<","L","I","N","K"," ","R","E","L","=","'","C","A","N","O","N","I","C","A","L","'",
            " ","H","R","E","F","=","'","/","x","'"," ","/",">","\n">>,
      og_title |->
          <<"<","m","e","t","a"," ","p","r","o","p","e","r","t","y","=","\"","o","g",":","t","i",
            "t","l","e","\""," ","c","o","n","t","e","n","t","=","\"","x","\""," ","/",">","\n">>,
      og_description |->
          <<"<","m","e","t","a"," ","p","r","o","p","e","r","t","y","=","\"","o","g",":","d","e",
            "s","c","r","i","p","t","i","o","n","\""," ","c","o","n","t","e","n","t","=","\"",
            "x","\""," ","/",">","\n">>,
      meta_hook |->
          <<"<","!","-","-"," ","_","_","M","E","T","A","_","_"," ","-","-",">","\n">>,
      post_body |->
          <<"<","b","o","d","y"," ","c","l","a","s","s","=","\"","_","_","C","A","T","E","G","O",
            "R","Y","_","_","\"",">","<","h","1",">","_","_","T","I","T","L","E","_","_","<","/",
            "h","1",">","<","h","2",">","_","_","S","U","B","T","I","T","L","E","_","_","<","/",
            "h","2",">","_","_","D","A","T","E","_","_"," ","_","_","R","E","A","D","I","N","G",
            "_","T","I","M","E","_","_"," ","_","_","C","A","T","E","G","O","R","Y","_","L","A",
            "B","E","L","_","_"," ","_","_","T","O","C","_","_"," ","_","_","M","O","B","I","L",
            "E","_","T","O","C","_","_"," ","_","_","C","O","N","T","E","N","T","_","_","<","/",
            "b","o","d","y",">">>,
      post_body_twice |->
          <<"<","b","o","d","y",">","<","h","1",">","_","_","T","I","T","L","E","_","_","<","/",
            "h","1",">","<","p",">","_","_","T","I","T","L","E","_","_","<","/","p",">","_","_",
            "C","O","N","T","E","N","T","_","_","<","/","b","o","d","y",">">>,
      index_body |->
          <<"<","b","o","d","y",">","<","!","-","-"," ","_","_","F","E","A","T","U","R","E","D",
            "_","P","O","S","T","S","_","_"," ","-","-",">","<","!","-","-"," ","_","_","R","E",
            "C","E","N","T","_","P","O","S","T","S","_","_"," ","-","-",">","<","!","-","-"," ",
            "_","_","C","A","T","E","G","O","R","Y","_","C","A","R","D","S","_","_"," ","-","-",
            ">","<","/","b","o","d","y",">">> ]

\* what a template has between <head> and </head>: the marker comment, nothing,
\* a canonical link (also in upper case with single quotes), OG tags, both
HeadPieces ==
    {Tp.meta_hook, <<>>, Tp.canonical, Tp.canonical_upper, Tp.og_title, Tp.og_description,
     Tp.canonical \o Tp.og_title}

PostTemplates ==
    {Tp.head_open \o h \o Lit.head_close \o b : h \in HeadPieces, b \in {Tp.post_body, Tp.post_body_twice}}

IndexTemplates == {Tp.head_open \o h \o Lit.head_close \o Tp.index_body : h \in HeadPieces}

\* the values main has for a post when it composes the page
PostContexts ==
    {[kind |-> "post", title |-> t, subtitle |-> s, description |-> d, og_title |-> o,
      og_image |-> g, date |-> D_2024_03_01, readingTime |-> calculateReadingTime(Sample.plain),
      processedHtml |-> Sample.content,
      tocHtml |-> IF h THEN Sample.toc ELSE <<>>,
      mobileTocHtml |-> IF h THEN Sample.mobile_toc ELSE <<>>,
      category |-> c, slug |-> G_a_b]
        : t \in {Sample.plain, Sample.specials, Sample.placeholder, Sample.dollar},
          s \in {<<>>, Sample.sub},
          d \in {<<>>, Sample.plain, Sample.desc},
          o \in {<<>>, Sample.og},
          g \in {<<>>, Sample.image},
          h \in BOOLEAN,
          c \in {S_posts, S_study_notes}}

\* the arguments renderIndexTemplate is called with
IndexContexts ==
    {[kind |-> "index", canonicalPath |-> p, recentHtml |-> Sample.recent,
      categoryCardsHtml |-> Sample.cards, featuredHtml |-> f]
        : p \in {Sample.home, Sample.category}, f \in {<<>>, Sample.featured}}

InitComp ==
    /\ IdleAllButComp
    /\ \/ tpl \in PostTemplates /\ ctx \in PostContexts
       \/ tpl \in IndexTemplates /\ ctx \in IndexContexts
    /\ outHtml = <<>>
    /\ stage = "ready"

\* main composes the page of a post from template-post.html
RenderPost ==
    /\ stage = "ready" /\ ctx.kind = "post"
    /\ outHtml' = renderPostTemplate(tpl, ctx)
    /\ stage' = "post"
    /\ UNCHANGED <<tpl, ctx, buildVars, headVars, linkVars, readVars, themeVars>>

\* main composes the home page or a category page from template-index.html
RenderIndex ==
    /\ stage = "ready" /\ ctx.kind = "index"
    /\ outHtml' = renderIndexTemplate(tpl, ctx.canonicalPath, ctx.recentHtml,
                                      ctx.categoryCardsHtml, ctx.featuredHtml)
    /\ stage' = "index"
    /\ UNCHANGED <<tpl, ctx, buildVars, headVars, linkVars, readVars, themeVars>>

NextComp == RenderPost \/ RenderIndex

SpecComp == InitComp /\ [][NextComp]_vars

---------------------------------------------------------------------------
(* Properties of the compositor *)

\* the metadata block of the page being composed
MetaBlock == IF ctx.kind = "post" THEN postMeta(ctx) ELSE indexMeta(ctx.canonicalPath)

\* the canonical link of the metadata block
CanonicalLink ==
    trim(SelectSeq(splitLines(MetaBlock), LAMBDA line : includes(line, Lit.rel_canonical))[1])

OgProperty == <<"p","r","o","p","e","r","t","y","=","\"","o","g",":">>

TemplateHasMarker == includes(tpl, Hook.META)
TemplateHasCanonical == testAttribute(tpl, Lit.rel_eq, Lit.canonical)
TemplateHasOg == includes(tpl, OgProperty)

\* the text of a page up to and including its closing head tag
HeadOf(html) == SubSeq(html, 1, indexOfFrom(html, Lit.head_close, 1) + Len(Lit.head_close) - 1)

\* C15: for every page the compositor builds, post page as well as home or
\* category page: a template with the marker comment gets the metadata block in
\* its place; without the marker the full block is inserted before the closing
\* head tag exactly when the template has neither a canonical link nor OG tags;
\* with OG tags but no canonical link only the canonical link is inserted;
\* otherwise the head of the template is left unchanged.
C15_MetaInjected ==
    stage \in {"post", "index"} =>
        IF TemplateHasMarker
        THEN includes(outHtml, MetaBlock) /\ ~includes(outHtml, Hook.META)
        ELSE IF ~TemplateHasCanonical /\ ~TemplateHasOg
        THEN includes(outHtml, MetaBlock \o <<"\n">> \o Lit.head_close)
        ELSE IF ~TemplateHasCanonical
        THEN /\ includes(outHtml, CanonicalLink \o <<"\n">> \o Lit.head_close)
             /\ ~includes(outHtml, MetaBlock)
        ELSE HeadOf(outHtml) = HeadOf(tpl)

\* a character with &, <, > and the two quotes written as entities
EscapedChar(c) ==
    IF c = "&" THEN Entity.amp
    ELSE IF c = "<" THEN Entity.lt
    ELSE IF c = ">" THEN Entity.gt
    ELSE IF c = "\"" THEN Entity.quot
    ELSE IF c = "'" THEN Entity.apos
    ELSE <<c>>

RECURSIVE Escaped(_)
Escaped(s) == IF s = <<>> THEN <<>> ELSE EscapedChar(s[1]) \o Escaped(Tail(s))

\* the metadata block of post c with its description, URL, title and image escaped
EscapedMeta(c) ==
    LET t == Escaped(IF c.og_title # <<>> THEN c.og_title ELSE c.title)
        d == Escaped(IF c.description # <<>> THEN c.description ELSE SITE.description)
        u == Escaped(SITE.url \o <<"/">> \o c.category \o <<"/">> \o c.slug \o <<"/">>)
    IN  MetaLine.description \o d \o MetaLine.end \o MetaLine.join
        \o MetaLine.canonical \o u \o MetaLine.end \o MetaLine.join
        \o MetaLine.og_title \o t \o MetaLine.end \o MetaLine.join
        \o MetaLine.og_description \o d \o MetaLine.end \o MetaLine.join
        \o MetaLine.og_type \o Lit.article \o MetaLine.end \o MetaLine.join
        \o MetaLine.og_url \o u \o MetaLine.end
        \o (IF c.og_image # <<>>
            THEN MetaLine.join \o MetaLine.og_image \o Escaped(c.og_image) \o MetaLine.end
            ELSE <<>>)

\* what each marker of the post template stands for: the text values escaped,
\* the content and the TOC fragments as they are
Bindings(c) ==
    << <<Hook.META, EscapedMeta(c)>>,
       <<Placeholder.TITLE, Escaped(c.title)>>,
       <<Placeholder.SUBTITLE, Escaped(c.subtitle)>>,
       <<Placeholder.DATE, Escaped(c.date)>>,
       <<Placeholder.READING_TIME, Escaped(c.readingTime)>>,
       <<Placeholder.CONTENT, c.processedHtml>>,
       <<Placeholder.TOC, c.tocHtml>>,
       <<Placeholder.MOBILE_TOC, c.mobileTocHtml>>,
       <<Placeholder.CATEGORY, Escaped(c.category)>>,
       <<Placeholder.CATEGORY_LABEL, Escaped(humanize(c.category))>> >>

\* the template with every marker replaced by what it stands for, in one pass:
\* a value that was put in is final
RECURSIVE Substituted(_, _)
Substituted(text, bindings) ==
    LET hits == {b \in 1..Len(bindings) : indexOfFrom(text, bindings[b][1], 1) > 0}
    IN  IF hits = {} THEN text
        ELSE LET b == CHOOSE x \in hits :
                          \A y \in hits : indexOfFrom(text, bindings[x][1], 1)
                                              <= indexOfFrom(text, bindings[y][1], 1)
                 i == indexOfFrom(text, bindings[b][1], 1)
             IN  SubSeq(text, 1, i - 1) \o bindings[b][2]
                 \o Substituted(SubSeq(text, i + Len(bindings[b][1]), Len(text)), bindings)

\* C16: every text value substituted into a post page (title, subtitle, date,
\* reading time, category, category label and the values of the metadata block)
\* is in the emitted page with &, <, > and quotes as entities and is not altered
\* by a later placeholder substitution; only the content fragment and the TOC
\* fragments are inserted unescaped.
C16_ValuesEscapedAndFinal ==
    stage = "post" => outHtml = Substituted(tpl, Bindings(ctx))

---------------------------------------------------------------------------
(* The theme toggle: src/js/theme.js, and its version with the transition class *)

IdleAllButTheme == IdleBuild /\ IdleHead /\ IdleLink /\ IdleRead /\ IdleComp

\* prefersDark ? 'dark' : 'light'
systemTheme(matches) == IF matches THEN "dark" ELSE "light"

\* initializeTheme: the saved theme if there is one, else the system theme
initialTheme(savedTheme, matches) ==
    IF savedTheme # "none" THEN savedTheme ELSE systemTheme(matches)

\* applyTheme: the aria-label it gives the toggle, if the page has one
labelAfter(theme) ==
    IF hasToggle
    THEN (IF theme = "dark" THEN "Switch to light mode" ELSE "Switch to dark mode")
    ELSE ariaLabel

\* the click handler: currentTheme === 'dark' ? 'light' : 'dark'
toggled(currentTheme) == IF currentTheme = "dark" THEN "light" ELSE "dark"

\* a change listener that applies the system theme whatever is saved
themeOnSystemChangeAlways(savedTheme, matches, currentTheme) == systemTheme(matches)

\* the change listener: the system theme is applied only when nothing is saved
themeOnSystemChange(savedTheme, matches, currentTheme) ==
    IF savedTheme = "none" THEN systemTheme(matches) ELSE currentTheme

MaxClicks == 3

\* a page is loaded: localStorage holds what an earlier page of the site saved
InitTheme ==
    /\ IdleAllButTheme
    /\ doc = "loading"
    /\ variant \in {"delay400", "transition"}
    /\ hasToggle \in BOOLEAN
    /\ stored \in {"none", "light", "dark"}
    /\ prefersDark \in BOOLEAN
    /\ dataTheme = "none" /\ ariaLabel = "none" /\ transitioning = FALSE
    /\ applyTimers = <<>> /\ removeTimers = 0 /\ clicks = 0 /\ theme0 = "none"
    /\ lastEvent = [kind |-> "none", before |-> "none"]

\* the DOMContentLoaded listener: initializeTheme, then the listeners are added
DOMContentLoaded ==
    /\ doc = "loading"
    /\ LET theme == initialTheme(stored, prefersDark)
       IN  /\ dataTheme' = theme
           /\ ariaLabel' = labelAfter(theme)
    /\ doc' = "ready"
    /\ lastEvent' = [kind |-> "load", before |-> dataTheme]
    /\ UNCHANGED <<variant, hasToggle, transitioning, stored, prefersDark, applyTimers,
                   removeTimers, clicks, theme0, buildVars, headVars, linkVars, readVars, compVars>>

\* the click listener of the toggle: newTheme is computed now, applied by a timer
Click ==
    /\ doc = "ready" /\ hasToggle
    /\ clicks < MaxClicks
    /\ applyTimers' = Append(applyTimers, toggled(dataTheme))
    /\ transitioning' = IF variant = "transition" THEN TRUE ELSE transitioning
    /\ clicks' = clicks + 1
    /\ theme0' = IF clicks = 0 THEN dataTheme ELSE theme0
    /\ lastEvent' = [kind |-> "click", before |-> dataTheme]
    /\ UNCHANGED <<doc, variant, hasToggle, dataTheme, ariaLabel, stored, prefersDark,
                   removeTimers, buildVars, headVars, linkVars, readVars, compVars>>

\* the oldest pending timer of the click handler fires: applyTheme(newTheme),
\* localStorage.setItem('blog-theme', newTheme)
ApplyTimer ==
    /\ applyTimers # <<>>
    /\ LET newTheme == Head(applyTimers)
       IN  /\ dataTheme' = newTheme
           /\ ariaLabel' = labelAfter(newTheme)
           /\ stored' = newTheme
    /\ applyTimers' = Tail(applyTimers)
    /\ removeTimers' = IF variant = "transition" THEN removeTimers + 1 ELSE removeTimers
    /\ lastEvent' = [kind |-> "timer", before |-> dataTheme]
    /\ UNCHANGED <<doc, variant, hasToggle, transitioning, prefersDark, clicks, theme0,
                   buildVars, headVars, linkVars, readVars, compVars>>

\* the nested timer of the transition version: the class is removed
RemoveTimer ==
    /\ removeTimers > 0
    /\ transitioning' = FALSE
    /\ removeTimers' = removeTimers - 1
    /\ lastEvent' = [kind |-> "removal", before |-> dataTheme]
    /\ UNCHANGED <<doc, variant, hasToggle, dataTheme, ariaLabel, stored, prefersDark,
                   applyTimers, clicks, theme0, buildVars, headVars, linkVars, readVars, compVars>>

\* the system colour scheme changes; the change listener runs once it is added
SystemChange ==
    /\ doc \in {"loading", "ready"}
    /\ prefersDark' = ~prefersDark
    /\ IF doc = "ready"
       THEN LET theme == themeOnSystemChange(stored, ~prefersDark, dataTheme)
            IN  /\ dataTheme' = theme
                /\ ariaLabel' = IF stored = "none" THEN labelAfter(theme) ELSE ariaLabel
                /\ lastEvent' = [kind |-> "change", before |-> dataTheme]
       ELSE UNCHANGED <<dataTheme, ariaLabel, lastEvent>>
    /\ UNCHANGED <<doc, variant, hasToggle, transitioning, stored, applyTimers, removeTimers,
                   clicks, theme0, buildVars, headVars, linkVars, readVars, compVars>>

NextTheme == DOMContentLoaded \/ Click \/ ApplyTimer \/ RemoveTimer \/ SystemChange

SpecTheme == InitTheme /\ [][NextTheme]_vars

\* a theme flipped k times
RECURSIVE Flipped(_, _)
Flipped(theme, k) ==
    IF k = 0 THEN theme
    ELSE LET t == Flipped(theme, k - 1) IN IF t = "dark" THEN "light" ELSE "dark"

NoPendingTimers == applyTimers = <<>> /\ removeTimers = 0

\* C18: every click on the toggle flips the theme: after k clicks, however
\* closely spaced, once all pending timers have fired both data-theme and the
\* stored 'blog-theme' value equal the theme before the first click flipped k
\* times.
C18_EveryClickFlips ==
    (clicks > 0 /\ NoPendingTimers) =>
        /\ dataTheme = Flipped(theme0, clicks)
        /\ stored = Flipped(theme0, clicks)

====
